---- MODULE Spec2Model ----
(***************************************************************************)
(* Model of ext/js/pages/settings/anki-controller.js: the card-format list *)
(* controller (AnkiController).  The persisted options live in the         *)
(* settings store; every handler that awaits the store is a task whose     *)
(* position (pc) is part of the state, so that handlers interleave exactly *)
(* at the awaits of the code.                                              *)
(*                                                                         *)
(* Indices are 0-based as in the code; At(list, i) reads position i.       *)
(***************************************************************************)
EXTENDS Integers, Sequences, FiniteSets, TLC

\* ------------------------------------------------------------------ bounds

\* Number of events and calls, in one behaviour, that arrive while a handler
\* started earlier is still suspended at an await.
MaxOverlaps == 1

\* Number of events (clicks, changes, notifications) in one behaviour.
MaxOps == 3

\* Number of direct calls of the controller's public methods in one behaviour.
MaxCalls == 1

\* Number of events delivered to one card controller in one behaviour.
MaxCardOps == 2

\* How many calls of the controller's remote methods (getAnkiData, addNotes,
\* canAddNotes, getModelFieldNames) are made.
MaxFetchCalls == 2

\* How many times _setupFieldMenus is called.
MaxMenuSetups == 2

\* ----------------------------------------------------------- JS primitives

None == <<>>
Some(x) == <<x>>
IsSome(o) == Len(o) = 1
Get(o) == o[1]

Min(a, b) == IF a < b THEN a ELSE b
Max(a, b) == IF a > b THEN a ELSE b

At(list, i) == list[i + 1]

Digits == <<"0", "1", "2", "3", "4", "5", "6", "7", "8", "9">>

RECURSIVE NatToString(_)
NatToString(n) ==
    IF n < 10 THEN <<Digits[n + 1]>>
    ELSE Append(NatToString(n \div 10), Digits[(n % 10) + 1])

\* `${n}` and n.toString() of an integer: a string, here its characters.
NumberToString(n) == IF n < 0 THEN <<"-">> \o NatToString(0 - n) ELSE NatToString(n)

DigitValue(c) == CHOOSE d \in 0..9 : Digits[d + 1] = c
IsDigit(c) == \E d \in 0..9 : Digits[d + 1] = c

RECURSIVE ParseDigits(_, _, _)
\* The value of the longest prefix of digits of s from position k on, with
\* acc the value of the digits already read.
ParseDigits(s, k, acc) ==
    IF k > Len(s) \/ ~IsDigit(s[k]) THEN acc
    ELSE ParseDigits(s, k + 1, acc * 10 + DigitValue(s[k]))

\* Number.parseInt(s, 10): None stands for NaN.
ParseInt(s) ==
    LET neg == Len(s) >= 1 /\ s[1] = "-"
        first == IF neg THEN 2 ELSE 1
    IN IF first > Len(s) \/ ~IsDigit(s[first]) THEN None
       ELSE LET v == ParseDigits(s, first, 0)
            IN Some(IF neg THEN 0 - v ELSE v)

\* Array.prototype.splice(start, deleteCount, ...items) as the settings store
\* applies it for a {action: 'splice'} patch.
Splice(list, start, deleteCount, items) ==
    LET len == Len(list)
        s == IF start < 0 THEN Max(len + start, 0) ELSE Min(start, len)
        d == Min(Max(deleteCount, 0), len - s)
    IN SubSeq(list, 1, s) \o items \o SubSeq(list, s + d + 1, len)

\* --------------------------------------------------------------- the data

MaxCardFormats == 5

FormatNames == <<"Format 1", "Format 2", "Format 3", "Format 4", "Format 5",
                 "Format 6", "Format 7", "Format 8", "Format 9", "Format 10">>

\* The object literal of _addNewFormat for a list of length index.
NewCardFormat(index) ==
    [name |-> FormatNames[index + 1], type |-> "term", deck |-> "", model |-> "",
     fields |-> <<>>, icon |-> "big-circle"]

\* The card formats a profile can hold when the page is opened.
InitFormats ==
    << [name |-> "A", type |-> "term", deck |-> "d", model |-> "m", fields |-> <<>>, icon |-> "big-circle"],
       [name |-> "B", type |-> "kanji", deck |-> "d", model |-> "m", fields |-> <<>>, icon |-> "small-circle"],
       [name |-> "C", type |-> "term", deck |-> "", model |-> "", fields |-> <<>>, icon |-> "big-circle"],
       [name |-> "D", type |-> "kanji", deck |-> "d", model |-> "", fields |-> <<>>, icon |-> "big-square"],
       [name |-> "E", type |-> "term", deck |-> "", model |-> "m", fields |-> <<>>, icon |-> "small-square"] >>

\* `anki-card-${type}-field-menu`
FieldMenuName(type) ==
    IF type = "kanji" THEN "anki-card-kanji-field-menu" ELSE "anki-card-term-field-menu"

\* ObjectPropertyAccessor.getPathString(['anki', 'cardFormats', index, key])
SettingPath(index, key) == [root |-> "anki.cardFormats", index |-> index, key |-> key]

\* The children of #anki-card-primary that _setCardFormatIndex looks up.
PanelNodes == {"type", "icon", "deck", "model"}

EmptyPanel ==
    [cardFormatIndex |-> None, ankiCardMenu |-> None, name |-> None, type |-> None,
     icon |-> None, iconValue |-> None, deck |-> None, model |-> None]

IdleTask == [kind |-> "idle", pc |-> "idle", index |-> 0, opts |-> <<>>,
             startList |-> <<>>, startIndex |-> 0]

ClosedModal == [visible |-> FALSE, cardFormatIndex |-> None]

NoLast == [op |-> "init", arg |-> 0, ok |-> TRUE, list |-> <<>>, index |-> 0,
           panel |-> EmptyPanel, modal |-> ClosedModal, task |-> IdleTask]

NoCardTask ==
    [kind |-> "idle", pc |-> "idle", opts |-> <<>>, newFields |-> <<>>, name |-> <<>>,
     row |-> 0, request |-> FALSE, detached |-> FALSE, startFields |-> <<>>, startStored |-> <<>>]

NoCardLast ==
    [op |-> "init", row |-> 0, input |-> <<>>, ok |-> TRUE, fields |-> <<>>, stored |-> <<>>,
     rows |-> <<>>, entries |-> <<>>, task |-> NoCardTask]

VARIABLES
    stored,              \* anki.cardFormats as persisted by the settings store
    ankiOptions,         \* the cardFormats of this._ankiOptions; None for null
    cardFormatIndex,     \* this._cardFormatIndex
    nodes,               \* which PanelNodes the document holds
    panel,               \* dataset and setting bindings of #anki-card-primary
    tabs,                \* the children of #anki-cards-tabs
    deleteDisabled,      \* this._cardFormatDeleteButton.disabled
    removeModal,         \* this._cardFormatRemoveModal: visible, dataset.cardFormatIndex
    removeName,          \* this._cardFormatRemoveName.textContent
    maximumModalVisible, \* this._cardFormatMaximumModal is shown
    prepareState,        \* "new", "running", "done" or "failed"
    tasks,               \* the suspended async handlers
    ops,                 \* events delivered so far
    calls,               \* direct calls made so far
    overlapBudget,       \* arrivals that may still find a handler suspended
    last                 \* the step just taken and the values it started from

\* The state of AnkiController's card-format list.
listVars == <<stored, ankiOptions, cardFormatIndex, nodes, panel, tabs, deleteDisabled,
              removeModal, removeName, maximumModalVisible, prepareState, tasks, ops, calls, overlapBudget, last>>

VARIABLES
    cardControllerIndex, \* AnkiCardController: this._cardFormatIndex
    thisCardFormat,      \* AnkiCardController: this._cardFormat; None for null
    fields,              \* this._fields: the field map, in property order
    fieldEntries,        \* this._fieldEntries
    rows,                \* the field rows in this._AnkiFieldsContainer
    cleaned,             \* this._cleaned
    cardListeners,       \* the listeners held by this._eventListeners
    granted,             \* whether the browser holds the clipboardRead permission
    focused,             \* the row whose name input holds the focus; None for none
    cardTasks,           \* the suspended async handlers of the card controller
    cardOps,             \* events delivered to the card controller so far
    cardLast             \* the card controller's step just taken and what it started from

\* The state of one AnkiCardController (the field editor of one format).
cardVars == <<cardControllerIndex, thisCardFormat, fields, fieldEntries, rows, cleaned,
              cardListeners, granted, focused, cardTasks, cardOps, cardLast>>

VARIABLES
    queryFieldName,      \* _getDefaultFieldValue: the fieldName argument
    queryIndex,          \* _getDefaultFieldValue: the index argument
    queryType,           \* _getDefaultFieldValue: the dictionaryEntryType argument
    queryOldFields,      \* _getDefaultFieldValue: the oldFields argument; None for null
    defaultValue,        \* what _getDefaultFieldValue returned; None before the call
    fieldMenu            \* the menu of the row's button: its type, and the item shown bold

\* One call of AnkiCardController._getDefaultFieldValue.
markerVars == <<queryFieldName, queryIndex, queryType, queryOldFields, defaultValue, fieldMenu>>

VARIABLES
    getAnkiDataPromise,  \* this._getAnkiDataPromise: the fetch it holds; None for null
    fetches,             \* the _getAnkiData() invocations so far, oldest first
    callers,             \* the getAnkiData() calls so far and what each received
    ankiEnabled,         \* this._ankiConnect.enabled
    statusText,          \* textContent of #anki-error-message
    statusDanger,        \* whether #anki-error-message carries danger-text
    ankiError,           \* this._ankiError; None for null
    noteCalls            \* the calls of the pass-through note-API methods and their outcome

\* The name fetch of AnkiController and its status area.
fetchVars == <<getAnkiDataPromise, fetches, callers, ankiEnabled, statusText, statusDanger, ankiError,
               noteCalls>>

VARIABLES
    menuTemplates,       \* what the document holds for each field-menu template
    menus,               \* the children of each template's .popup-menu-body, by data-marker
    menuTasks,           \* the _setupFieldMenus calls suspended at getDictionaryInfo()
    menuCalls            \* _setupFieldMenus calls made so far

\* The field menus AnkiController fills.
menuVars == <<menuTemplates, menus, menuTasks, menuCalls>>

vars == <<listVars, cardVars, markerVars, fetchVars, menuVars>>

\* The names of the field-menu templates.
FieldMenuNames == {"anki-card-term-field-menu", "anki-card-kanji-field-menu", "anki-card-all-field-menu"}

\* The field menus as the document ships them, before any setup.
MenusConstructed ==
    /\ menuTemplates = [name \in FieldMenuNames |-> "present"]
    /\ menus = [name \in FieldMenuNames |-> <<>>]
    /\ menuTasks = <<>>
    /\ menuCalls = 0

\* #anki-error-message as the document ships it, and with a text written to it.
DefaultContent == [default |-> TRUE, text |-> <<>>]

TextContent(text) == [default |-> FALSE, text |-> text]

\* No default lookup is under way.
MarkerIdle ==
    /\ queryFieldName = <<>>
    /\ queryIndex = 0
    /\ queryType = "term"
    /\ queryOldFields = None
    /\ defaultValue = None
    /\ fieldMenu = [type |-> "term", opened |-> FALSE, bold |-> <<>>]

\* AnkiController's fetch state after construction.
FetchConstructed ==
    /\ getAnkiDataPromise = None
    /\ fetches = <<>>
    /\ callers = <<>>
    /\ statusText = DefaultContent
    /\ statusDanger = FALSE
    /\ ankiError = None
    /\ noteCalls = <<>>

\* An overlapping arrival can suspend one more handler.
MaxTasks == MaxOverlaps + 1

\* The rows of an editor: the fields its format starts with and one per event.
MaxRows == 3 + MaxCardOps

\* The handlers one card controller can have suspended: prepare(), and per
\* event its write or its permission check and the check of a render.
MaxCardTasks == 2 * (MaxCardOps + 1)


TaskIds == 1..MaxTasks

Quiet == \A t \in TaskIds : tasks[t].kind = "idle"

FreeTask(t) == tasks[t].kind = "idle" /\ \A u \in TaskIds : u < t => tasks[u].kind # "idle"

Prepared == prepareState = "done"

\* An event or call arrives: at any time while the budget lasts, else only
\* when no handler is suspended.
Arrive ==
    IF Quiet THEN UNCHANGED overlapBudget
    ELSE overlapBudget > 0 /\ overlapBudget' = overlapBudget - 1

\* What `last` keeps of a step: its name, argument and outcome, the task that
\* took it, and the values the step replaced (list, index, panel, modal) when
\* it replaces any.
Step(op, arg, ok, task) == [NoLast EXCEPT !.op = op, !.arg = arg, !.ok = ok, !.task = task]

StepOnIndex(op, arg, ok, task) ==
    [Step(op, arg, ok, task) EXCEPT !.index = cardFormatIndex, !.panel = panel]

StepOnList(op, arg, ok, task) == [Step(op, arg, ok, task) EXCEPT !.list = stored]

StepOnModal(op, arg, ok, task) ==
    [Step(op, arg, ok, task) EXCEPT !.modal = removeModal, !.index = cardFormatIndex]

\* ------------------------------------------------------- AnkiController

\* _setCardFormatIndex: the panel it leaves behind, and whether it threw.
SetCardFormatIndex(index, ankiCardMenu, p, options) ==
    LET p1 == [p EXCEPT !.cardFormatIndex = Some(NumberToString(index)),
                        !.ankiCardMenu = ankiCardMenu,
                        !.name = Some(SettingPath(index, "name"))]
        icon == IF IsSome(options) /\ index >= 0 /\ index < Len(Get(options))
                THEN At(Get(options), index).icon ELSE "big-circle"
        p2 == [p1 EXCEPT !.type = Some(SettingPath(index, "type"))]
        p3 == [p2 EXCEPT !.icon = Some(SettingPath(index, "icon")), !.iconValue = Some(icon)]
        p4 == [p3 EXCEPT !.deck = Some(SettingPath(index, "deck"))]
        p5 == [p4 EXCEPT !.model = Some(SettingPath(index, "model"))]
    IN IF "type" \notin nodes THEN [panel |-> p1, threw |-> TRUE]
       ELSE IF "icon" \notin nodes THEN [panel |-> p2, threw |-> TRUE]
       ELSE IF "deck" \notin nodes THEN [panel |-> p3, threw |-> TRUE]
       ELSE IF "model" \notin nodes THEN [panel |-> p4, threw |-> TRUE]
       ELSE [panel |-> p5, threw |-> FALSE]

\* The two clamps at the head of _setupTabs.
ClampCardFormatIndex(index, length) ==
    LET i1 == IF index > length THEN length - 1 ELSE index
    IN IF i1 < 0 THEN 0 ELSE i1

\* _createCardFormatTab, with the checked flag _setupTabs gives the input.
CreateCardFormatTab(cardFormat, index, checked) ==
    [value |-> cardFormat.type,
     ankiCardMenu |-> FieldMenuName(cardFormat.type),
     cardFormatIndex |-> NumberToString(index),
     label |-> cardFormat.name,
     checked |-> checked]

\* _setupTabs: the tab strip built for a list and a clamped index.
SetupTabs(cardFormats, index) ==
    [i \in 1..Len(cardFormats) |-> CreateCardFormatTab(cardFormats[i], i - 1, i - 1 = index)]

DeleteButtonDisabled(cardFormats) == Len(cardFormats) <= 1

\* _onOptionsChanged for delivered card formats; TRUE iff it threw.
OnOptionsChangedThrows(cardFormats) ==
    SetCardFormatIndex(ClampCardFormatIndex(cardFormatIndex, Len(cardFormats)),
                       Some("anki-card-term-field-menu"), panel, Some(cardFormats)).threw

OnOptionsChanged(cardFormats) ==
    LET index == ClampCardFormatIndex(cardFormatIndex, Len(cardFormats))
        r == SetCardFormatIndex(index, Some("anki-card-term-field-menu"), panel, Some(cardFormats))
    IN /\ ankiOptions' = Some(cardFormats)
       /\ tabs' = SetupTabs(cardFormats, index)
       /\ deleteDisabled' = DeleteButtonDisabled(cardFormats)
       /\ cardFormatIndex' = index
       /\ panel' = r.panel

\* _getCardFormat of AnkiController: None for null.
GetCardFormat(index) ==
    IF ~IsSome(ankiOptions) THEN None
    ELSE IF index < 0 \/ index >= Len(Get(ankiOptions)) THEN None
    ELSE Some(At(Get(ankiOptions), index))

\* A validation that reads a missing dataset value as index 0.
TryGetValidCardFormatIndexDefaulted(stringValue) ==
    LET intValue == IF IsSome(stringValue) THEN ParseInt(Get(stringValue)) ELSE Some(0)
    IN IF ~IsSome(ankiOptions) THEN None
       ELSE IF IsSome(intValue) /\ Get(intValue) >= 0 /\ Get(intValue) < Len(Get(ankiOptions))
            THEN intValue
            ELSE None

\* _tryGetValidCardFormatIndex of a dataset value (None for undefined).
TryGetValidCardFormatIndex(stringValue) ==
    IF ~IsSome(stringValue) THEN None
    ELSE LET intValue == ParseInt(Get(stringValue))
         IN IF ~IsSome(ankiOptions) THEN None
            ELSE IF IsSome(intValue) /\ Get(intValue) >= 0 /\ Get(intValue) < Len(Get(ankiOptions))
                 THEN intValue
                 ELSE None

\* The guard of deleteCardFormat: TRUE iff the call goes on to the settings write.
DeleteCardFormatProceeds(index) ==
    /\ IsSome(ankiOptions)
    /\ ~(index < 0 \/ index >= Len(Get(ankiOptions)))

\* A maximum check that lets a full list through.
AddNewFormatRefusesOffByOne(index) == index > MaxCardFormats

\* The guard of _addNewFormat: TRUE iff the maximum notice is shown instead of a write.
AddNewFormatRefuses(index) == index >= MaxCardFormats

\* The guard of _onCardFormatDeleteClick: TRUE iff the click returns at once.
DeleteClickReturns == IsSome(ankiOptions) /\ Len(Get(ankiOptions)) = 1

\* A delete that leaves the index on the deleted position.
IndexAfterDeleteKept(index) == index

\* The index deleteCardFormat leaves in _cardFormatIndex before it reloads.
IndexAfterDelete(index) == index - 1

\* Patches whose new format is spliced in at the head of the list.
ApplyPatchAtHead(list, task) ==
    IF task.kind = "add"
    THEN Splice(list, 0, 0, <<NewCardFormat(task.index)>>)
    ELSE Splice(list, task.index, 1, <<>>)

\* The patch a task hands to modifyProfileSettings, applied to the persisted list.
ApplyPatch(list, task) ==
    IF task.kind = "add"
    THEN Splice(list, task.index, 0, <<NewCardFormat(task.index)>>)
    ELSE Splice(list, task.index, 1, <<>>)

NewTask(kind, pc, index) ==
    [kind |-> kind, pc |-> pc, index |-> index, opts |-> <<>>,
     startList |-> stored, startIndex |-> cardFormatIndex]

\* ---------------------------------------------------------------- actions

\* prepare(), up to its await of _updateOptions.
Prepare ==
    /\ prepareState = "new"
    /\ \E t \in TaskIds :
        /\ FreeTask(t)
        /\ tasks' = [tasks EXCEPT ![t] = NewTask("prepare", "reloadGet", 0)]
    /\ prepareState' = "running"
    /\ last' = Step("prepare", 0, TRUE, IdleTask)
    /\ UNCHANGED <<stored, ankiOptions, cardFormatIndex, nodes, panel, tabs, deleteDisabled,
                   removeModal, removeName, maximumModalVisible, ops, calls>>
    /\ UNCHANGED overlapBudget
    /\ UNCHANGED <<cardVars, markerVars, fetchVars, menuVars>>

\* The settings store answers a getOptions() with the options it holds.
StoreGetOptions(t) ==
    /\ tasks[t].pc \in {"getOptions", "reloadGet"}
    /\ tasks' = [tasks EXCEPT ![t].opts = stored,
                              ![t].pc = IF tasks[t].pc = "getOptions" THEN "gotOptions" ELSE "reloadGot"]
    /\ last' = Step("getOptions", 0, TRUE, tasks[t])
    /\ UNCHANGED <<stored, ankiOptions, cardFormatIndex, nodes, panel, tabs, deleteDisabled,
                   removeModal, removeName, maximumModalVisible, prepareState, ops, calls>>
    /\ UNCHANGED overlapBudget
    /\ UNCHANGED <<cardVars, markerVars, fetchVars, menuVars>>

\* The settings store applies the patch of a modifyProfileSettings().
StoreModify(t) ==
    /\ tasks[t].pc = "modify"
    /\ stored' = ApplyPatch(stored, tasks[t])
    /\ tasks' = [tasks EXCEPT ![t].pc = "modified"]
    /\ last' = StepOnList("modify", tasks[t].index, TRUE, tasks[t])
    /\ UNCHANGED <<ankiOptions, cardFormatIndex, nodes, panel, tabs, deleteDisabled,
                   removeModal, removeName, maximumModalVisible, prepareState, ops, calls>>
    /\ UNCHANGED overlapBudget
    /\ UNCHANGED <<cardVars, markerVars, fetchVars, menuVars>>

\* prepare() resumes: _onOptionsChanged, then the listeners and the modals.
PrepareResume(t) ==
    /\ tasks[t].kind = "prepare" /\ tasks[t].pc = "reloadGot"
    /\ OnOptionsChanged(tasks[t].opts)
    /\ prepareState' = IF OnOptionsChangedThrows(tasks[t].opts) THEN "failed" ELSE "done"
    /\ tasks' = [tasks EXCEPT ![t] = IdleTask]
    /\ last' = StepOnIndex("reload", 0, ~OnOptionsChangedThrows(tasks[t].opts), tasks[t])
    /\ UNCHANGED <<stored, nodes, removeModal, removeName, maximumModalVisible, ops, calls>>
    /\ UNCHANGED overlapBudget
    /\ UNCHANGED <<cardVars, markerVars, fetchVars, menuVars>>

\* _updateOptions resumes after getOptions: _onOptionsChanged.
UpdateOptionsResume(t) ==
    /\ tasks[t].kind \in {"add", "delete", "update"} /\ tasks[t].pc = "reloadGot"
    /\ OnOptionsChanged(tasks[t].opts)
    /\ tasks' = [tasks EXCEPT ![t] = IdleTask]
    /\ last' = StepOnIndex("reload", tasks[t].index, ~OnOptionsChangedThrows(tasks[t].opts), tasks[t])
    /\ UNCHANGED <<stored, nodes, removeModal, removeName, maximumModalVisible, prepareState, ops, calls>>
    /\ UNCHANGED overlapBudget
    /\ UNCHANGED <<cardVars, markerVars, fetchVars, menuVars>>

\* The settings store emits optionsChanged with the options it holds.
OptionsChangedEvent ==
    /\ Prepared /\ ops < MaxOps
    /\ OnOptionsChanged(stored)
    /\ ops' = ops + 1
    /\ last' = StepOnIndex("reload", 0, ~OnOptionsChangedThrows(stored),
                      [IdleTask EXCEPT !.kind = "event", !.opts = stored,
                                       !.startList = stored, !.startIndex = cardFormatIndex])
    /\ UNCHANGED <<stored, nodes, removeModal, removeName, maximumModalVisible, prepareState, tasks, calls>>
    /\ Arrive
    /\ UNCHANGED <<cardVars, markerVars, fetchVars, menuVars>>

\* onAnkiSettingChanged: void this._updateOptions().
AnkiSettingChanged ==
    /\ Prepared /\ ops < MaxOps
    /\ \E t \in TaskIds :
        /\ FreeTask(t)
        /\ tasks' = [tasks EXCEPT ![t] = NewTask("update", "reloadGet", 0)]
    /\ ops' = ops + 1
    /\ last' = Step("settingChanged", 0, TRUE, IdleTask)
    /\ UNCHANGED <<stored, ankiOptions, cardFormatIndex, nodes, panel, tabs, deleteDisabled,
                   removeModal, removeName, maximumModalVisible, prepareState, calls>>
    /\ Arrive
    /\ UNCHANGED <<cardVars, markerVars, fetchVars, menuVars>>

\* The change event of a tab's radio input: _onAnkiCardPrimaryTypeRadioChange.
TabChange(k) ==
    /\ k \in 1..Len(tabs) /\ ~tabs[k].checked /\ ops < MaxOps
    /\ LET index == ParseInt(tabs[k].cardFormatIndex)
           r == SetCardFormatIndex(Get(index), Some(tabs[k].ankiCardMenu), panel, ankiOptions)
       IN /\ IsSome(index)
          /\ cardFormatIndex' = Get(index)
          /\ panel' = r.panel
          /\ last' = StepOnIndex("tabChange", Get(index), ~r.threw, IdleTask)
    /\ tabs' = [i \in 1..Len(tabs) |-> [tabs[i] EXCEPT !.checked = (i = k)]]
    /\ ops' = ops + 1
    /\ UNCHANGED <<stored, ankiOptions, nodes, deleteDisabled, removeModal, removeName,
                   maximumModalVisible, prepareState, tasks, calls>>
    /\ Arrive
    /\ UNCHANGED <<cardVars, markerVars, fetchVars, menuVars>>

\* _onNewFormatButtonClick: _addNewFormat up to its await of getOptions.
NewFormatClick ==
    /\ Prepared /\ ops < MaxOps
    /\ \E t \in TaskIds :
        /\ FreeTask(t)
        /\ tasks' = [tasks EXCEPT ![t] = NewTask("add", "getOptions", 0)]
    /\ ops' = ops + 1
    /\ last' = Step("newFormatClick", 0, TRUE, IdleTask)
    /\ UNCHANGED <<stored, ankiOptions, cardFormatIndex, nodes, panel, tabs, deleteDisabled,
                   removeModal, removeName, maximumModalVisible, prepareState, calls>>
    /\ Arrive
    /\ UNCHANGED <<cardVars, markerVars, fetchVars, menuVars>>

\* _addNewFormat resumes after getOptions: the maximum check, then the write.
AddNewFormatResume(t) ==
    /\ tasks[t].kind = "add" /\ tasks[t].pc = "gotOptions"
    /\ LET index == Len(tasks[t].opts)
       IN IF AddNewFormatRefuses(index)
          THEN /\ maximumModalVisible' = TRUE
               /\ tasks' = [tasks EXCEPT ![t] = IdleTask]
               /\ last' = Step("addRefused", index, TRUE, tasks[t])
          ELSE /\ maximumModalVisible' = maximumModalVisible
               /\ tasks' = [tasks EXCEPT ![t].index = index, ![t].pc = "modify"]
               /\ last' = Step("addWrite", index, TRUE, tasks[t])
    /\ UNCHANGED <<stored, ankiOptions, cardFormatIndex, nodes, panel, tabs, deleteDisabled,
                   removeModal, removeName, prepareState, ops, calls>>
    /\ UNCHANGED overlapBudget
    /\ UNCHANGED <<cardVars, markerVars, fetchVars, menuVars>>

\* _addNewFormat resumes after modifyProfileSettings: await this._updateOptions().
AddNewFormatModified(t) ==
    /\ tasks[t].kind = "add" /\ tasks[t].pc = "modified"
    /\ tasks' = [tasks EXCEPT ![t].pc = "reloadGet"]
    /\ last' = Step("addModified", tasks[t].index, TRUE, tasks[t])
    /\ UNCHANGED <<stored, ankiOptions, cardFormatIndex, nodes, panel, tabs, deleteDisabled,
                   removeModal, removeName, maximumModalVisible, prepareState, ops, calls>>
    /\ UNCHANGED overlapBudget
    /\ UNCHANGED <<cardVars, markerVars, fetchVars, menuVars>>

\* The body of openDeleteCardFormatModal; the modal is null until prepare() got it.
OpenDeleteCardFormatModal(index) ==
    LET cardFormat == GetCardFormat(index)
    IN IF ~IsSome(cardFormat)
       THEN UNCHANGED <<removeModal, removeName>>
       ELSE /\ removeName' = Get(cardFormat).name
            /\ removeModal' = IF Prepared
                              THEN [visible |-> TRUE, cardFormatIndex |-> Some(NumberToString(index))]
                              ELSE removeModal

OpenDeleteCardFormatModalThrows(index) == IsSome(GetCardFormat(index)) /\ ~Prepared

\* _onCardFormatDeleteClick.
CardFormatDeleteClick ==
    /\ Prepared /\ ops < MaxOps
    /\ IF DeleteClickReturns
       THEN UNCHANGED <<removeModal, removeName>>
       ELSE OpenDeleteCardFormatModal(cardFormatIndex)
    /\ ops' = ops + 1
    /\ last' = StepOnModal("deleteClick", cardFormatIndex, TRUE, IdleTask)
    /\ UNCHANGED <<stored, ankiOptions, cardFormatIndex, nodes, panel, tabs, deleteDisabled,
                   maximumModalVisible, prepareState, tasks, calls>>
    /\ Arrive
    /\ UNCHANGED <<cardVars, markerVars, fetchVars, menuVars>>

\* A direct call of the public openDeleteCardFormatModal(index).
OpenDeleteCardFormatModalCall(index) ==
    /\ calls < MaxCalls
    /\ OpenDeleteCardFormatModal(index)
    /\ calls' = calls + 1
    /\ last' = StepOnModal("openModal", index, ~OpenDeleteCardFormatModalThrows(index), IdleTask)
    /\ UNCHANGED <<stored, ankiOptions, cardFormatIndex, nodes, panel, tabs, deleteDisabled,
                   maximumModalVisible, prepareState, tasks, ops>>
    /\ Arrive
    /\ UNCHANGED <<cardVars, markerVars, fetchVars, menuVars>>

\* deleteCardFormat(index) up to its await of modifyProfileSettings.
DeleteCardFormat(index) ==
    IF DeleteCardFormatProceeds(index)
    THEN \E t \in TaskIds :
            /\ FreeTask(t)
            /\ tasks' = [tasks EXCEPT ![t] = NewTask("delete", "modify", index)]
    ELSE UNCHANGED tasks

\* _onCardFormatRemoveConfirm.
CardFormatRemoveConfirm ==
    /\ Prepared /\ ops < MaxOps
    /\ removeModal' = ClosedModal
    /\ LET validCardFormatIndex == TryGetValidCardFormatIndex(removeModal.cardFormatIndex)
       IN IF ~IsSome(validCardFormatIndex)
          THEN /\ UNCHANGED tasks
               /\ last' = StepOnModal("confirm", 0, FALSE, IdleTask)
          ELSE /\ DeleteCardFormat(Get(validCardFormatIndex))
               /\ last' = StepOnModal("confirm", Get(validCardFormatIndex), TRUE, IdleTask)
    /\ ops' = ops + 1
    /\ UNCHANGED <<stored, ankiOptions, cardFormatIndex, nodes, panel, tabs, deleteDisabled,
                   removeName, maximumModalVisible, prepareState, calls>>
    /\ Arrive
    /\ UNCHANGED <<cardVars, markerVars, fetchVars, menuVars>>

\* How a call of deleteCardFormat(index) ends its synchronous part: it returns
\* at a guard, or suspends at the await of the write.
DeleteCardFormatOutcome(index) ==
    IF DeleteCardFormatProceeds(index) THEN "awaits" ELSE "returns"

\* How a call of openDeleteCardFormatModal(index) ends: it returns when
\* _getCardFormat gives null, throws on a missing modal, else shows the modal.
OpenDeleteCardFormatModalOutcome(index) ==
    IF ~IsSome(GetCardFormat(index)) THEN "returns"
    ELSE IF OpenDeleteCardFormatModalThrows(index) THEN "throws"
    ELSE "shown"

\* The indices a caller may hand to the public methods.
CallIndices == -1..MaxCardFormats

\* A direct call of the public deleteCardFormat(index).
DeleteCardFormatCall(index) ==
    /\ calls < MaxCalls
    /\ DeleteCardFormat(index)
    /\ calls' = calls + 1
    /\ last' = Step("deleteCall", index, DeleteCardFormatProceeds(index), IdleTask)
    /\ UNCHANGED <<stored, ankiOptions, cardFormatIndex, nodes, panel, tabs, deleteDisabled,
                   removeModal, removeName, maximumModalVisible, prepareState, ops>>
    /\ Arrive
    /\ UNCHANGED <<cardVars, markerVars, fetchVars, menuVars>>

\* deleteCardFormat resumes after modifyProfileSettings: the index, then _updateOptions().
DeleteCardFormatModified(t) ==
    /\ tasks[t].kind = "delete" /\ tasks[t].pc = "modified"
    /\ cardFormatIndex' = IndexAfterDelete(tasks[t].index)
    /\ tasks' = [tasks EXCEPT ![t].pc = "reloadGet"]
    /\ last' = StepOnIndex("deleteModified", tasks[t].index, TRUE, tasks[t])
    /\ UNCHANGED <<stored, ankiOptions, nodes, panel, tabs, deleteDisabled,
                   removeModal, removeName, maximumModalVisible, prepareState, ops, calls>>
    /\ UNCHANGED overlapBudget
    /\ UNCHANGED <<cardVars, markerVars, fetchVars, menuVars>>

\* ------------------------------------------------------- specifications

\* The page as it is opened: a profile with 1..5 card formats, the controller
\* constructed and prepare() not yet called.
Opened(budget) ==
    /\ overlapBudget = budget
    /\ \E n \in 1..MaxCardFormats : stored = SubSeq(InitFormats, 1, n)
    /\ nodes \in {PanelNodes} \cup {PanelNodes \ {x} : x \in PanelNodes}
    /\ ankiOptions = None
    /\ cardFormatIndex = 0
    /\ panel = EmptyPanel
    /\ tabs = <<>>
    /\ deleteDisabled = FALSE
    /\ removeModal = ClosedModal
    /\ removeName = ""
    /\ maximumModalVisible = FALSE
    /\ prepareState = "new"
    /\ tasks = [t \in TaskIds |-> IdleTask]
    /\ ops = 0
    /\ calls = 0
    /\ last = NoLast
    /\ cardControllerIndex = 0
    /\ thisCardFormat = None
    /\ fields = <<>>
    /\ fieldEntries = <<>>
    /\ rows = <<>>
    /\ cleaned = FALSE
    /\ cardListeners = {}
    /\ granted = FALSE
    /\ focused = None
    /\ cardTasks = <<>>
    /\ cardOps = 0
    /\ cardLast = NoCardLast
    /\ MarkerIdle
    /\ FetchConstructed
    /\ MenusConstructed
    /\ ankiEnabled = FALSE

\* A step of a suspended handler or of the settings store.
TaskStep ==
    \E t \in TaskIds :
        \/ StoreGetOptions(t)
        \/ StoreModify(t)
        \/ PrepareResume(t)
        \/ UpdateOptionsResume(t)
        \/ AddNewFormatResume(t)
        \/ AddNewFormatModified(t)
        \/ DeleteCardFormatModified(t)

\* An event or a call that starts a handler.
Event ==
    \/ Prepare
    \/ OptionsChangedEvent
    \/ AnkiSettingChanged
    \/ NewFormatClick
    \/ CardFormatDeleteClick
    \/ CardFormatRemoveConfirm
    \/ \E k \in 1..(MaxCardFormats + MaxTasks) : TabChange(k)
    \/ \E index \in CallIndices : OpenDeleteCardFormatModalCall(index)
    \/ \E index \in CallIndices : DeleteCardFormatCall(index)

Next == TaskStep \/ Event

\* Handlers interleave at their awaits: up to MaxOverlaps events or calls
\* arrive while an earlier handler is suspended.
Init == Opened(MaxOverlaps)

Spec == Init /\ [][Next]_vars

\* Every handler runs to completion before the next event or call arrives.
InitSeq == Opened(0)

SpecSeq == InitSeq /\ [][Next]_vars

TypeOK ==
    /\ Len(cardTasks) <= MaxCardTasks
    /\ Len(rows) <= MaxRows
    /\ Len(callers) <= MaxFetchCalls
    /\ Len(fetches) <= Len(callers)
    /\ cardFormatIndex \in -1..(MaxCardFormats + MaxTasks)
    /\ ops \in 0..MaxOps
    /\ prepareState \in {"new", "running", "done", "failed"}

\* ----------------------------------------------------------------- strings

\* A string of the page is the sequence of its characters.
Space == " "

RECURSIVE TrimStart(_)
TrimStart(s) == IF Len(s) > 0 /\ Head(s) = Space THEN TrimStart(Tail(s)) ELSE s

RECURSIVE TrimEnd(_)
TrimEnd(s) ==
    IF Len(s) > 0 /\ s[Len(s)] = Space THEN TrimEnd(SubSeq(s, 1, Len(s) - 1)) ELSE s

\* A trim that leaves the spaces at the end.
TrimLeading(s) == TrimStart(s)

\* String.prototype.trim()
Trim(s) == TrimEnd(TrimStart(s))

\* String.prototype.includes(sub)
Includes(s, sub) ==
    \E k \in 1..(Len(s) - Len(sub) + 1) : SubSeq(s, k, k + Len(sub) - 1) = sub

RECURSIVE Join(_, _)
\* Array.prototype.join(separator) of strings
Join(list, separator) ==
    IF Len(list) = 0 THEN <<>>
    ELSE IF Len(list) = 1 THEN list[1]
    ELSE list[1] \o separator \o Join(Tail(list), separator)

RECURSIVE SplitFrom(_, _, _)
\* The pieces of s between occurrences of the character c, with piece the
\* characters read since the last occurrence.
SplitFrom(s, c, piece) ==
    IF Len(s) = 0 THEN <<piece>>
    ELSE IF Head(s) = c THEN <<piece>> \o SplitFrom(Tail(s), c, <<>>)
    ELSE SplitFrom(Tail(s), c, Append(piece, Head(s)))

\* String.prototype.split(c) for a one-character separator
Split(s, c) == SplitFrom(s, c, <<>>)

\* --------------------------------------------------- objects as field maps

\* A JavaScript object with string keys is the sequence of its entries
\* [name, value, overwriteMode] in property order: keys that are array
\* indices first, in ascending numeric order, then the other keys in the
\* order they were added.
IsArrayIndex(key) ==
    /\ Len(key) >= 1
    /\ \A k \in 1..Len(key) : IsDigit(key[k])
    /\ NatToString(ParseDigits(key, 1, 0)) = key

\* Object.prototype.hasOwnProperty.call(obj, key)
HasOwnProperty(obj, key) == \E k \in 1..Len(obj) : obj[k].name = key

KeyPosition(obj, key) == CHOOSE k \in 1..Len(obj) : obj[k].name = key

\* Where a key that obj does not hold is placed: the number of entries before it.
InsertPosition(obj, key) ==
    IF IsArrayIndex(key)
    THEN Cardinality({k \in 1..Len(obj) :
            IsArrayIndex(obj[k].name) /\ ParseDigits(obj[k].name, 1, 0) < ParseDigits(key, 1, 0)})
    ELSE Len(obj)

\* {...obj, [key]: field}
SpreadWith(obj, key, field) ==
    LET entry == [name |-> key, value |-> field.value, overwriteMode |-> field.overwriteMode]
    IN IF HasOwnProperty(obj, key)
       THEN [obj EXCEPT ![KeyPosition(obj, key)] = entry]
       ELSE LET p == InsertPosition(obj, key)
            IN SubSeq(obj, 1, p) \o <<entry>> \o SubSeq(obj, p + 1, Len(obj))

\* const {[key]: removed, ...rest} = obj: the rest
RestWithout(obj, key) == SelectSeq(obj, LAMBDA entry : entry.name # key)

\* const {[key]: removed, ...rest} = obj: the removed value
Removed(obj, key) ==
    IF HasOwnProperty(obj, key)
    THEN [value |-> obj[KeyPosition(obj, key)].value,
          overwriteMode |-> obj[KeyPosition(obj, key)].overwriteMode]
    ELSE [value |-> <<"undefined">>, overwriteMode |-> "undefined"]

\* ------------------------------------------------------ AnkiCardController

\* getStandardFieldMarkers(type) of data/anki-template-util.js: the canonical
\* markers of a dictionary entry type, in list order.
TermFieldMarkers ==
    << <<"a", "u", "d", "i", "o">>,
       <<"c", "l", "i", "p", "b", "o", "a", "r", "d", "-", "t", "e", "x", "t">>,
       <<"d", "i", "c", "t", "i", "o", "n", "a", "r", "y">>,
       <<"e", "x", "p", "r", "e", "s", "s", "i", "o", "n">>,
       <<"f", "r", "e", "q", "u", "e", "n", "c", "y", "-", "h", "a", "r", "m", "o", "n", "i", "c", "-", "r", "a", "n", "k">>,
       <<"f", "u", "r", "i", "g", "a", "n", "a">>,
       <<"g", "l", "o", "s", "s", "a", "r", "y">>,
       <<"p", "i", "t", "c", "h", "-", "a", "c", "c", "e", "n", "t", "s">>,
       <<"p", "i", "t", "c", "h", "-", "a", "c", "c", "e", "n", "t", "-", "p", "o", "s", "i", "t", "i", "o", "n", "s">>,
       <<"p", "i", "t", "c", "h", "-", "a", "c", "c", "e", "n", "t", "-", "c", "a", "t", "e", "g", "o", "r", "i", "e", "s">>,
       <<"r", "e", "a", "d", "i", "n", "g">>,
       <<"p", "o", "p", "u", "p", "-", "s", "e", "l", "e", "c", "t", "i", "o", "n", "-", "t", "e", "x", "t">>,
       <<"s", "e", "n", "t", "e", "n", "c", "e">> >>

KanjiFieldMarkers ==
    << <<"c", "h", "a", "r", "a", "c", "t", "e", "r">>,
       <<"c", "l", "i", "p", "b", "o", "a", "r", "d", "-", "t", "e", "x", "t">>,
       <<"d", "i", "c", "t", "i", "o", "n", "a", "r", "y">>,
       <<"g", "l", "o", "s", "s", "a", "r", "y">>,
       <<"k", "u", "n", "y", "o", "m", "i">>,
       <<"o", "n", "y", "o", "m", "i">>,
       <<"p", "o", "p", "u", "p", "-", "s", "e", "l", "e", "c", "t", "i", "o", "n", "-", "t", "e", "x", "t">>,
       <<"s", "e", "n", "t", "e", "n", "c", "e">> >>

GetStandardFieldMarkers(type) ==
    IF type = "kanji" THEN KanjiFieldMarkers ELSE TermFieldMarkers

\* The marker written without its braces.
MarkerTokenBare(marker) == marker

\* `{${marker}}`
MarkerToken(marker) == <<"{">> \o marker \o <<"}">>

\* stringContainsAnyFieldMarker(value) of data/anki-util.js: the template
\* holds the token of a recognized marker.
StringContainsAnyFieldMarker(value) ==
    \E type \in {"term", "kanji"} :
        \E k \in 1..Len(GetStandardFieldMarkers(type)) :
            Includes(value, MarkerToken(GetStandardFieldMarkers(type)[k]))

ClipboardRead == <<"c", "l", "i", "p", "b", "o", "a", "r", "d", "R", "e", "a", "d">>

\* getRequiredPermissionsForAnkiFieldValue(value) of data/permissions-util.js:
\* a template that reads the clipboard needs the clipboardRead permission.
GetRequiredPermissions(value) ==
    IF Includes(value, <<"{", "c", "l", "i", "p", "b", "o", "a", "r", "d", "-", "t", "e", "x", "t", "}">>)
    THEN <<ClipboardRead>> ELSE <<>>

FieldBaseName == <<"F", "i", "e", "l", "d">>

\* The object literal of _onAddFieldClick.
NewField == [value |-> <<>>, overwriteMode |-> "coalesce"]

\* ObjectPropertyAccessor.getPathString(['anki', 'cardFormats', index, 'fields', fieldName, key])
FieldSettingPath(index, fieldName, key) ==
    [root |-> "anki.cardFormats", index |-> index, key |-> "fields",
     fieldName |-> fieldName, leaf |-> key]

\* `${b}` of a boolean
BooleanToString(b) == IF b THEN "true" ELSE "false"

\* An inverted flag: the row is flagged when it is valid.
ValidateFieldInverted(hasPermissions, index, value) ==
    LET valid == hasPermissions # Some("false")
    IN BooleanToString(
           IF valid /\ index = 0 /\ ~StringContainsAnyFieldMarker(value) THEN FALSE ELSE valid)

\* _validateField: the value it leaves in node.dataset.invalid.
ValidateField(hasPermissions, index, value) ==
    LET valid == hasPermissions # Some("false")
    IN BooleanToString(
           ~(IF valid /\ index = 0 /\ ~StringContainsAnyFieldMarker(value) THEN FALSE ELSE valid))

\* The first of Field, Field1, Field2, ... from `${baseName}${counter}` on
\* that obj does not hold.
RECURSIVE NextFieldName(_, _)
NextFieldName(obj, counter) ==
    LET name == IF counter = 0 THEN FieldBaseName ELSE FieldBaseName \o NumberToString(counter)
    IN IF HasOwnProperty(obj, name) THEN NextFieldName(obj, counter + 1) ELSE name

\* A name generator that never looks at the map.
AddFieldNameFixed(obj) == FieldBaseName

\* The name _onAddFieldClick generates for the field map obj.
AddFieldName(obj) == NextFieldName(obj, 0)

\* An add that puts the new field first.
AddFieldNewFieldsAtHead(obj) ==
    <<[name |-> AddFieldName(obj), value |-> NewField.value,
       overwriteMode |-> NewField.overwriteMode]>> \o obj

\* The newFields of _onAddFieldClick.
AddFieldNewFields(obj) == SpreadWith(obj, AddFieldName(obj), NewField)

\* A check that lets a name in use through.
RenameRejectedEmptyOnly(obj, oldName, newName) == newName = <<>>

\* The two guards of _onFieldNameBlur that revert the input.
RenameRejected(obj, oldName, newName) ==
    newName = <<>> \/ HasOwnProperty(obj, newName)

\* A rename that keeps the key and drops the value.
RenameNewFieldsDefaulted(obj, oldName, newName) ==
    SpreadWith(RestWithout(obj, oldName), newName, NewField)

\* A rename that drops the field and adds none.
RenameNewFieldsDropped(obj, oldName, newName) == RestWithout(obj, oldName)

\* The newFields of _onFieldNameBlur.
RenameNewFields(obj, oldName, newName) ==
    SpreadWith(RestWithout(obj, oldName), newName, Removed(obj, oldName))

\* The row _setupFields builds for one entry of the field map.
FieldRow(index, fieldName, fieldValue) ==
    LET permissions == GetRequiredPermissions(fieldValue)
    IN [index |-> NumberToString(index),
        name |-> fieldName,
        value |-> fieldValue,
        overwriteSetting |-> FieldSettingPath(cardControllerIndex, fieldName, "overwriteMode"),
        valueSetting |-> FieldSettingPath(cardControllerIndex, fieldName, "value"),
        requiredPermission |-> IF Len(permissions) > 0 THEN Some(Join(permissions, <<Space>>)) ELSE None,
        hasPermissions |-> None,
        invalid |-> ValidateField(None, index, fieldValue),
        menuIndex |-> NumberToString(index),
        menuFieldName |-> fieldName]

\* A render that stops before the last field.
SetupFieldsRowsShort(obj) ==
    [i \in 1..(Len(obj) - 1) |-> FieldRow(i - 1, obj[i].name, obj[i].value)]

\* _setupFields: the rows it puts into the container.
SetupFieldsRows(obj) ==
    [i \in 1..Len(obj) |-> FieldRow(i - 1, obj[i].name, obj[i].value)]

\* _setupFields: the entries it leaves in this._fieldEntries.
SetupFieldsEntries(obj) ==
    [i \in 1..Len(obj) |-> [fieldName |-> obj[i].name, index |-> i - 1]]

\* The field map the settings store holds for the card controller's format.
StoredFields ==
    IF cardControllerIndex >= 0 /\ cardControllerIndex < Len(stored)
    THEN At(stored, cardControllerIndex).fields ELSE <<>>


\* A handler of the card controller as it suspends at an await.
CardTask(kind, pc) ==
    [NoCardTask EXCEPT !.kind = kind, !.pc = pc, !.startFields = fields, !.startStored = StoredFields]

\* The check _validateFieldPermissions awaits for the node of a row.
PermissionTask(row, request) ==
    [CardTask("permission", "check") EXCEPT !.row = row, !.request = request]


\* What cardLast keeps of a step: its name, row, input and outcome, the task
\* that took it, and the field map, persisted map, rows and entries it started from.
CardStep(op, row, input, ok, task) ==
    [op |-> op, row |-> row, input |-> input, ok |-> ok, fields |-> fields,
     stored |-> StoredFields, rows |-> rows, entries |-> fieldEntries, task |-> task]

WithoutTask(list, i) == SubSeq(list, 1, i - 1) \o SubSeq(list, i + 1, Len(list))

CardQuiet == Len(cardTasks) = 0

\* An event arrives at the card controller: at any time while the budget
\* lasts, else only when none of its handlers is suspended.
CardArrive ==
    IF CardQuiet THEN UNCHANGED overlapBudget
    ELSE overlapBudget > 0 /\ overlapBudget' = overlapBudget - 1

\* The permission checks _setupFields starts, one per row whose value needs a permission.
SetupFieldsChecks(obj) ==
    LET needing == SelectSeq(SetupFieldsEntries(obj),
                             LAMBDA entry : Len(GetRequiredPermissions(obj[entry.index + 1].value)) > 0)
    IN [k \in 1..Len(needing) |-> PermissionTask(needing[k].index, FALSE)]

\* _setupFields for the field map obj, with pending the handlers still
\* suspended: their nodes leave the container.
SetupFields(obj, pending) ==
    /\ rows' = SetupFieldsRows(obj)
    /\ fieldEntries' = SetupFieldsEntries(obj)
    /\ focused' = None
    /\ cardTasks' = [k \in 1..Len(pending) |->
                        IF pending[k].kind = "permission"
                        THEN [pending[k] EXCEPT !.detached = TRUE] ELSE pending[k]]
                    \o SetupFieldsChecks(obj)

\* The settings store answers the getOptions() of prepare().
CardGetOptions(i) ==
    /\ i \in 1..Len(cardTasks)
    /\ cardTasks[i].kind = "prepare" /\ cardTasks[i].pc = "getOptions"
    /\ cardTasks' = [cardTasks EXCEPT ![i].opts = stored, ![i].pc = "gotOptions"]
    /\ cardLast' = CardStep("getOptions", 0, <<>>, TRUE, cardTasks[i])
    /\ UNCHANGED <<cardControllerIndex, thisCardFormat, fields, fieldEntries, rows, cleaned,
                   cardListeners, granted, focused, cardOps>>
    /\ UNCHANGED <<markerVars, fetchVars, menuVars>>
    /\ UNCHANGED listVars

\* prepare() that goes on although the editor was cleaned up.
PrepareReturnsOnNullOnly(isCleaned, valid) == ~valid

\* The two early returns of prepare(): this._cleaned, and a null card format.
PrepareReturns(isCleaned, valid) == isCleaned \/ ~valid

\* prepare() resumes after getOptions.
CardPrepareResume(i) ==
    /\ i \in 1..Len(cardTasks)
    /\ cardTasks[i].kind = "prepare" /\ cardTasks[i].pc = "gotOptions"
    /\ LET opts == cardTasks[i].opts
           valid == cardControllerIndex >= 0 /\ cardControllerIndex < Len(opts)
       IN IF PrepareReturns(cleaned, valid)
          THEN /\ cardTasks' = WithoutTask(cardTasks, i)
               /\ cardLast' = CardStep("prepared", 0, <<>>, cleaned, cardTasks[i])
               /\ UNCHANGED <<thisCardFormat, fields, fieldEntries, rows, cardListeners, focused>>
          ELSE /\ thisCardFormat' = Some(At(opts, cardControllerIndex))
               /\ fields' = At(opts, cardControllerIndex).fields
               /\ SetupFields(At(opts, cardControllerIndex).fields, WithoutTask(cardTasks, i))
               /\ cardListeners' = cardListeners \cup {"addFieldClick", "permissionsChanged"}
               /\ cardLast' = CardStep("prepared", 0, <<>>, TRUE, cardTasks[i])
    /\ UNCHANGED <<cardControllerIndex, cleaned, granted, cardOps>>
    /\ UNCHANGED <<markerVars, fetchVars, menuVars>>
    /\ UNCHANGED listVars

\* cleanup()
Cleanup ==
    /\ ~cleaned /\ cardOps < MaxCardOps
    /\ cleaned' = TRUE
    /\ fieldEntries' = <<>>
    /\ cardListeners' = {}
    /\ cardOps' = cardOps + 1
    /\ cardLast' = CardStep("cleanup", 0, <<>>, TRUE, NoCardTask)
    /\ UNCHANGED <<cardControllerIndex, thisCardFormat, fields, rows, granted, focused, cardTasks>>
    /\ UNCHANGED <<markerVars, fetchVars, menuVars>>
    /\ UNCHANGED <<stored, ankiOptions, cardFormatIndex, nodes, panel, tabs, deleteDisabled,
                   removeModal, removeName, maximumModalVisible, prepareState, tasks, ops, calls, last>>
    /\ CardArrive

\* _onAddFieldClick up to its await of modifyProfileSettings.
AddFieldClick ==
    /\ "addFieldClick" \in cardListeners /\ focused = None /\ cardOps < MaxCardOps
    /\ cardTasks' = Append(cardTasks,
                           [CardTask("add", "modify") EXCEPT !.newFields = AddFieldNewFields(fields),
                                                             !.name = AddFieldName(fields)])
    /\ cardOps' = cardOps + 1
    /\ cardLast' = CardStep("addFieldClick", 0, <<>>, TRUE, NoCardTask)
    /\ UNCHANGED <<cardControllerIndex, thisCardFormat, fields, fieldEntries, rows, cleaned,
                   cardListeners, granted, focused>>
    /\ UNCHANGED <<markerVars, fetchVars, menuVars>>
    /\ UNCHANGED <<stored, ankiOptions, cardFormatIndex, nodes, panel, tabs, deleteDisabled,
                   removeModal, removeName, maximumModalVisible, prepareState, tasks, ops, calls, last>>
    /\ CardArrive

\* A set patch that reaches every format of the list.
ApplySetFieldsEverywhere(list, index, value) ==
    [k \in 1..Len(list) |-> [list[k] EXCEPT !.fields = value]]

\* The patch {action: 'set', path: anki.cardFormats[index].fields, value}
\* applied to the persisted list.
ApplySetFields(list, index, value) ==
    IF index >= 0 /\ index < Len(list)
    THEN [list EXCEPT ![index + 1].fields = value]
    ELSE list

\* The settings store applies the patch of _onAddFieldClick or _onFieldNameBlur.
CardStoreModify(i) ==
    /\ i \in 1..Len(cardTasks)
    /\ cardTasks[i].kind \in {"add", "rename"} /\ cardTasks[i].pc = "modify"
    /\ stored' = ApplySetFields(stored, cardControllerIndex, cardTasks[i].newFields)
    /\ cardTasks' = [cardTasks EXCEPT ![i].pc = "modified"]
    /\ cardLast' = CardStep("modify", 0, <<>>, TRUE, cardTasks[i])
    /\ UNCHANGED <<cardControllerIndex, thisCardFormat, fields, fieldEntries, rows, cleaned,
                   cardListeners, granted, focused, cardOps>>
    /\ UNCHANGED <<markerVars, fetchVars, menuVars>>
    /\ UNCHANGED <<ankiOptions, cardFormatIndex, nodes, panel, tabs, deleteDisabled,
                   removeModal, removeName, maximumModalVisible, prepareState, tasks, ops, calls,
                   overlapBudget, last>>

\* _onAddFieldClick resumes after modifyProfileSettings.
AddFieldResume(i) ==
    /\ i \in 1..Len(cardTasks)
    /\ cardTasks[i].kind = "add" /\ cardTasks[i].pc = "modified"
    /\ fields' = cardTasks[i].newFields
    /\ SetupFields(cardTasks[i].newFields, WithoutTask(cardTasks, i))
    /\ cardLast' = CardStep("added", 0, cardTasks[i].name, TRUE, cardTasks[i])
    /\ UNCHANGED <<cardControllerIndex, thisCardFormat, cleaned, cardListeners, granted, cardOps>>
    /\ UNCHANGED <<markerVars, fetchVars, menuVars>>
    /\ UNCHANGED listVars

\* The user edits the text of a row's name input, which takes the focus.
FieldNameInput(r, text) ==
    /\ r \in 1..Len(rows) /\ focused = None /\ cardOps < MaxCardOps
    /\ rows' = [rows EXCEPT ![r].name = text]
    /\ focused' = Some(r - 1)
    /\ cardLast' = CardStep("nameInput", r - 1, text, TRUE, NoCardTask)
    /\ UNCHANGED <<cardControllerIndex, thisCardFormat, fields, fieldEntries, cleaned,
                   cardListeners, granted, cardTasks, cardOps>>
    /\ UNCHANGED <<markerVars, fetchVars, menuVars>>
    /\ UNCHANGED listVars

\* _onFieldNameBlur(index, e) for the focused row's name input.
FieldNameBlur ==
    /\ IsSome(focused)
    /\ LET index == Get(focused)
           node == rows[index + 1]
           newName == Trim(node.name)
       IN IF index >= Len(fieldEntries)
          THEN /\ UNCHANGED <<rows, cardTasks>>
               /\ cardLast' = CardStep("renameNoEntry", index, node.name, FALSE, NoCardTask)
          ELSE LET oldName == fieldEntries[index + 1].fieldName
               IN IF newName = oldName
                  THEN /\ UNCHANGED <<rows, cardTasks>>
                       /\ cardLast' = CardStep("renameSame", index, node.name, TRUE, NoCardTask)
                  ELSE IF RenameRejected(fields, oldName, newName)
                  THEN /\ rows' = [rows EXCEPT ![index + 1].name = oldName]
                       /\ UNCHANGED cardTasks
                       /\ cardLast' = CardStep("renameRejected", index, node.name, FALSE, NoCardTask)
                  ELSE /\ UNCHANGED rows
                       /\ cardTasks' = Append(cardTasks,
                              [CardTask("rename", "modify") EXCEPT
                                  !.newFields = RenameNewFields(fields, oldName, newName),
                                  !.name = newName, !.row = index])
                       /\ cardLast' = CardStep("renameWrite", index, node.name, TRUE, NoCardTask)
    /\ focused' = None
    /\ cardOps' = cardOps + 1
    /\ UNCHANGED <<cardControllerIndex, thisCardFormat, fields, fieldEntries, cleaned,
                   cardListeners, granted>>
    /\ UNCHANGED <<markerVars, fetchVars, menuVars>>
    /\ UNCHANGED <<stored, ankiOptions, cardFormatIndex, nodes, panel, tabs, deleteDisabled,
                   removeModal, removeName, maximumModalVisible, prepareState, tasks, ops, calls, last>>
    /\ CardArrive

\* _onFieldNameBlur resumes after modifyProfileSettings.
RenameResume(i) ==
    /\ i \in 1..Len(cardTasks)
    /\ cardTasks[i].kind = "rename" /\ cardTasks[i].pc = "modified"
    /\ fields' = cardTasks[i].newFields
    /\ SetupFields(cardTasks[i].newFields, WithoutTask(cardTasks, i))
    /\ cardLast' = CardStep("renamed", cardTasks[i].row, cardTasks[i].name, TRUE, cardTasks[i])
    /\ UNCHANGED <<cardControllerIndex, thisCardFormat, cleaned, cardListeners, granted, cardOps>>
    /\ UNCHANGED <<markerVars, fetchVars, menuVars>>
    /\ UNCHANGED listVars

\* The row after _validateField(node, index).
Validated(row, index) ==
    [row EXCEPT !.invalid = ValidateField(row.hasPermissions, index, row.value)]

\* _onFieldInput(index, e): the user edits the text of a row's value input.
FieldValueInput(r, text) ==
    /\ r \in 1..Len(rows) /\ focused = None /\ cardOps < MaxCardOps
    /\ rows[r].value # text
    /\ rows' = [rows EXCEPT ![r] = Validated([rows[r] EXCEPT !.value = text], r - 1)]
    /\ cardOps' = cardOps + 1
    /\ cardLast' = CardStep("valueInput", r - 1, text, TRUE, NoCardTask)
    /\ UNCHANGED <<cardControllerIndex, thisCardFormat, fields, fieldEntries, cleaned,
                   cardListeners, granted, focused, cardTasks>>
    /\ UNCHANGED <<markerVars, fetchVars, menuVars>>
    /\ UNCHANGED <<stored, ankiOptions, cardFormatIndex, nodes, panel, tabs, deleteDisabled,
                   removeModal, removeName, maximumModalVisible, prepareState, tasks, ops, calls, last>>
    /\ CardArrive

\* _onFieldChange(index, e): _validateFieldPermissions(node, index, true) up
\* to its await, then _validateField.
FieldValueChange(r) ==
    /\ r \in 1..Len(rows) /\ focused = None /\ cardOps < MaxCardOps
    /\ LET permissions == GetRequiredPermissions(rows[r].value)
       IN IF Len(permissions) > 0
          THEN /\ rows' = [rows EXCEPT ![r] =
                              Validated([rows[r] EXCEPT !.requiredPermission =
                                                            Some(Join(permissions, <<Space>>))], r - 1)]
               /\ cardTasks' = Append(cardTasks, PermissionTask(r - 1, TRUE))
          ELSE /\ rows' = [rows EXCEPT ![r] =
                              Validated([rows[r] EXCEPT !.requiredPermission = None,
                                                        !.hasPermissions = None], r - 1)]
               /\ UNCHANGED cardTasks
    /\ cardOps' = cardOps + 1
    /\ cardLast' = CardStep("valueChange", r - 1, rows[r].value, TRUE, NoCardTask)
    /\ UNCHANGED <<cardControllerIndex, thisCardFormat, fields, fieldEntries, cleaned,
                   cardListeners, granted, focused>>
    /\ UNCHANGED <<markerVars, fetchVars, menuVars>>
    /\ UNCHANGED <<stored, ankiOptions, cardFormatIndex, nodes, panel, tabs, deleteDisabled,
                   removeModal, removeName, maximumModalVisible, prepareState, tasks, ops, calls, last>>
    /\ CardArrive

\* _onFieldMenuClose with the action setFieldMarker: _setFieldMarker writes the
\* marker's token into the row's value input and dispatches a change event,
\* which _onFieldChange handles before dispatchEvent returns.
SetFieldMarker(r, marker) ==
    /\ r \in 1..Len(rows) /\ focused = None /\ cardOps < MaxCardOps
    /\ LET row == [rows[r] EXCEPT !.value = MarkerToken(marker)]
           permissions == GetRequiredPermissions(row.value)
       IN IF Len(permissions) > 0
          THEN /\ rows' = [rows EXCEPT ![r] =
                              Validated([row EXCEPT !.requiredPermission =
                                                        Some(Join(permissions, <<Space>>))], r - 1)]
               /\ cardTasks' = Append(cardTasks, PermissionTask(r - 1, TRUE))
          ELSE /\ rows' = [rows EXCEPT ![r] =
                              Validated([row EXCEPT !.requiredPermission = None,
                                                    !.hasPermissions = None], r - 1)]
               /\ UNCHANGED cardTasks
    /\ cardOps' = cardOps + 1
    /\ cardLast' = CardStep("setFieldMarker", r - 1, marker, TRUE, NoCardTask)
    /\ UNCHANGED <<cardControllerIndex, thisCardFormat, fields, fieldEntries, cleaned,
                   cardListeners, granted, focused>>
    /\ UNCHANGED <<markerVars, fetchVars, menuVars>>
    /\ UNCHANGED <<stored, ankiOptions, cardFormatIndex, nodes, panel, tabs, deleteDisabled,
                   removeModal, removeName, maximumModalVisible, prepareState, tasks, ops, calls, last>>
    /\ CardArrive

\* _onFieldMenuClose of a menu closed without an item (item === null), or with
\* an action other than setFieldMarker: the switch does nothing.
FieldMenuDismiss(r) ==
    /\ r \in 1..Len(rows) /\ focused = None /\ cardOps < MaxCardOps
    /\ cardOps' = cardOps + 1
    /\ cardLast' = CardStep("menuDismiss", r - 1, <<>>, TRUE, NoCardTask)
    /\ UNCHANGED <<cardControllerIndex, thisCardFormat, fields, fieldEntries, rows, cleaned,
                   cardListeners, granted, focused, cardTasks>>
    /\ UNCHANGED <<markerVars, fetchVars, menuVars>>
    /\ UNCHANGED <<stored, ankiOptions, cardFormatIndex, nodes, panel, tabs, deleteDisabled,
                   removeModal, removeName, maximumModalVisible, prepareState, tasks, ops, calls, last>>
    /\ CardArrive

\* _validateFieldPermissions resumes: hasPermissions() answers with the grant
\* the browser holds, setPermissionsGranted() with the user's answer.
PermissionReply(i, answer) ==
    /\ i \in 1..Len(cardTasks)
    /\ cardTasks[i].kind = "permission"
    /\ answer = granted \/ (cardTasks[i].request /\ ~granted)
    /\ granted' = answer
    /\ LET r == cardTasks[i].row + 1
       IN IF cardTasks[i].detached
          THEN UNCHANGED rows
          ELSE rows' = [rows EXCEPT ![r] =
                           Validated([rows[r] EXCEPT !.hasPermissions = Some(BooleanToString(answer))],
                                     r - 1)]
    /\ cardTasks' = WithoutTask(cardTasks, i)
    /\ cardLast' = CardStep("permissionReply", cardTasks[i].row, <<>>, answer, cardTasks[i])
    /\ UNCHANGED <<cardControllerIndex, thisCardFormat, fields, fieldEntries, cleaned,
                   cardListeners, focused, cardOps>>
    /\ UNCHANGED <<markerVars, fetchVars, menuVars>>
    /\ UNCHANGED listVars

\* The row of an entry after _onPermissionsChanged for the permission set.
PermissionsChangedRow(row, index, permissionsSet) ==
    IF ~IsSome(row.requiredPermission) THEN row
    ELSE LET requiredPermissionArray ==
                 IF Len(Get(row.requiredPermission)) = 0 THEN <<>>
                 ELSE Split(Get(row.requiredPermission), Space)
             hasPermissions2 ==
                 \A k \in 1..Len(requiredPermissionArray) :
                     requiredPermissionArray[k] \in permissionsSet
         IN Validated([row EXCEPT !.hasPermissions = Some(BooleanToString(hasPermissions2))], index)

\* The browser's grant changes and the settings controller emits
\* permissionsChanged: _onPermissionsChanged.
PermissionsChanged ==
    /\ "permissionsChanged" \in cardListeners /\ focused = None /\ cardOps < MaxCardOps
    /\ granted' = ~granted
    /\ LET permissionsSet == IF granted' THEN {ClipboardRead} ELSE {}
       IN rows' = [r \in 1..Len(rows) |->
                      IF r <= Len(fieldEntries)
                      THEN PermissionsChangedRow(rows[r], r - 1, permissionsSet)
                      ELSE rows[r]]
    /\ cardOps' = cardOps + 1
    /\ cardLast' = CardStep("permissionsChanged", 0, <<>>, ~granted, NoCardTask)
    /\ UNCHANGED <<cardControllerIndex, thisCardFormat, fields, fieldEntries, cleaned,
                   cardListeners, focused, cardTasks>>
    /\ UNCHANGED <<markerVars, fetchVars, menuVars>>
    /\ UNCHANGED <<stored, ankiOptions, cardFormatIndex, nodes, panel, tabs, deleteDisabled,
                   removeModal, removeName, maximumModalVisible, prepareState, tasks, ops, calls, last>>
    /\ CardArrive

\* The texts a user types into a name input.
NameInputs ==
    { <<>>, <<" ">>, <<"F", "i", "e", "l", "d">>, <<" ", "F", "r", "o", "n", "t", " ">>, <<"B", "a", "c", "k">>, <<"1">> }

\* The texts a user types into a value input.
ValueInputs ==
    { <<>>, <<"x">>, <<"{", "r", "e", "a", "d", "i", "n", "g", "}">>, <<"{", "c", "l", "i", "p", "b", "o", "a", "r", "d", "-", "t", "e", "x", "t", "}">> }

\* The markers a user picks from a field menu.
MenuMarkers == {<<"r", "e", "a", "d", "i", "n", "g">>, <<"c", "l", "i", "p", "b", "o", "a", "r", "d", "-", "t", "e", "x", "t">>}

\* The field maps a card format can hold when its editor is created.
InitFieldMaps ==
    { <<>>,
      << [name |-> <<"F", "r", "o", "n", "t">>, value |-> <<"{", "e", "x", "p", "r", "e", "s", "s", "i", "o", "n", "}">>, overwriteMode |-> "coalesce"],
         [name |-> <<"B", "a", "c", "k">>, value |-> <<"{", "c", "l", "i", "p", "b", "o", "a", "r", "d", "-", "t", "e", "x", "t", "}">>, overwriteMode |-> "overwrite"] >>,
      << [name |-> <<"2">>, value |-> <<"x">>, overwriteMode |-> "coalesce"],
         [name |-> <<"F", "i", "e", "l", "d">>, value |-> <<>>, overwriteMode |-> "overwrite"],
         [name |-> <<"F", "i", "e", "l", "d", "1">>, value |-> <<"{", "r", "e", "a", "d", "i", "n", "g", "}">>, overwriteMode |-> "coalesce"] >> }

\* The controller of the card format list at rest: prepared, nothing pending.
ListAtRest(list) ==
    /\ stored = list
    /\ nodes = PanelNodes
    /\ ankiOptions = Some(list)
    /\ cardFormatIndex = 0
    /\ panel = SetCardFormatIndex(0, Some("anki-card-term-field-menu"), EmptyPanel, Some(list)).panel
    /\ tabs = SetupTabs(list, 0)
    /\ deleteDisabled = DeleteButtonDisabled(list)
    /\ removeModal = ClosedModal
    /\ removeName = ""
    /\ maximumModalVisible = FALSE
    /\ prepareState = "done"
    /\ tasks = [t \in TaskIds |-> IdleTask]
    /\ ops = 0
    /\ calls = 0
    /\ last = NoLast

\* A card controller as _createCardController leaves it: constructed for the
\* index of its node's dataset, prepare() suspended at getOptions().
CardCreated(budget) ==
    /\ overlapBudget = budget
    /\ \E first \in InitFieldMaps, index \in 0..2 :
          /\ ListAtRest(<<[InitFormats[1] EXCEPT !.fields = first], InitFormats[2]>>)
          /\ cardControllerIndex = Get(ParseInt(NumberToString(index)))
    /\ thisCardFormat = None
    /\ fields = <<>>
    /\ fieldEntries = <<>>
    /\ rows = <<>>
    /\ cleaned = FALSE
    /\ cardListeners = {}
    /\ granted \in BOOLEAN
    /\ focused = None
    /\ cardTasks = <<[NoCardTask EXCEPT !.kind = "prepare", !.pc = "getOptions"]>>
    /\ cardOps = 0
    /\ cardLast = NoCardLast
    /\ MarkerIdle
    /\ FetchConstructed
    /\ MenusConstructed
    /\ ankiEnabled = FALSE

\* A step of a suspended handler of the card controller, of the settings
\* store or of the permission API.
CardTaskStep ==
    \E i \in 1..MaxCardTasks :
        \/ CardGetOptions(i)
        \/ CardPrepareResume(i)
        \/ CardStoreModify(i)
        \/ AddFieldResume(i)
        \/ RenameResume(i)
        \/ \E answer \in BOOLEAN : PermissionReply(i, answer)

\* An event delivered to the card controller.
CardEvent ==
    \/ Cleanup
    \/ AddFieldClick
    \/ FieldNameBlur
    \/ PermissionsChanged
    \/ \E r \in 1..MaxRows : \E text \in NameInputs : FieldNameInput(r, text)
    \/ \E r \in 1..MaxRows : \E text \in ValueInputs : FieldValueInput(r, text)
    \/ \E r \in 1..MaxRows : FieldValueChange(r)
    \/ \E r \in 1..MaxRows : \E marker \in MenuMarkers : SetFieldMarker(r, marker)
    \/ \E r \in 1..MaxRows : FieldMenuDismiss(r)

CardNext == CardTaskStep \/ CardEvent

\* The field editor with handlers that interleave at their awaits.
CardInit == CardCreated(MaxOverlaps)

SpecCard == CardInit /\ [][CardNext]_vars

\* The field editor with every handler run to completion before the next event.
CardInitSeq == CardCreated(0)

SpecCardSeq == CardInitSeq /\ [][CardNext]_vars

\* The steps of an editor between its creation and its removal whose fields
\* are only viewed and edited in place: prepare() and its getOptions(), the
\* permission checks and changes, value edits, and cleanup().
CardRemovalNext ==
    \/ \E i \in 1..MaxCardTasks : CardGetOptions(i)
    \/ \E i \in 1..MaxCardTasks : CardPrepareResume(i)
    \/ \E i \in 1..MaxCardTasks : \E answer \in BOOLEAN : PermissionReply(i, answer)
    \/ Cleanup
    \/ PermissionsChanged
    \/ \E r \in 1..MaxRows : \E text \in ValueInputs : FieldValueInput(r, text)
    \/ \E r \in 1..MaxRows : FieldValueChange(r)

\* The editor from creation to removal, handlers interleaving at their awaits.
SpecCardRemoval == CardInit /\ [][CardRemovalNext]_vars

\* ----------------------------------------- AnkiCardController: default markers

LowerCaseLetters ==
    <<"a", "b", "c", "d", "e", "f", "g", "h", "i", "j", "k", "l", "m", "n", "o", "p", "q", "r", "s", "t", "u", "v", "w", "x", "y", "z">>

UpperCaseLetters ==
    <<"A", "B", "C", "D", "E", "F", "G", "H", "I", "J", "K", "L", "M", "N", "O", "P", "Q", "R", "S", "T", "U", "V", "W", "X", "Y", "Z">>

\* A character as a case-sensitive RegExp compares it.
CanonicalizeExact(c) == c

\* A character as a RegExp with the 'i' flag compares it.
Canonicalize(c) ==
    IF \E k \in 1..26 : LowerCaseLetters[k] = c
    THEN UpperCaseLetters[CHOOSE k \in 1..26 : LowerCaseLetters[k] = c]
    ELSE c

\* The characters [-_ ] accepts.
SeparatorClass == {"-", "_", " "}

\* name.replace(/-/g, '[-_ ]*'): the atoms of one alternative of the pattern.
HyphenPattern(name) ==
    [k \in 1..Len(name) |-> IF name[k] = "-"
                            THEN [run |-> TRUE, char |-> ""]
                            ELSE [run |-> FALSE, char |-> name[k]]]

\* Whether a sequence of atoms matches the whole of s.
RECURSIVE MatchesWhole(_, _)
MatchesWhole(atoms, s) ==
    IF Len(atoms) = 0 THEN Len(s) = 0
    ELSE IF Head(atoms).run
    THEN \/ MatchesWhole(Tail(atoms), s)
         \/ Len(s) > 0 /\ Head(s) \in SeparatorClass /\ MatchesWhole(atoms, Tail(s))
    ELSE /\ Len(s) > 0
         /\ Canonicalize(Head(s)) = Canonicalize(Head(atoms).char)
         /\ MatchesWhole(Tail(atoms), Tail(s))

\* new RegExp('^(?:' + alternatives + ')$', 'i').test(fieldName)
PatternTest(names, fieldName) ==
    \E k \in 1..Len(names) : MatchesWhole(HyphenPattern(names[k]), fieldName)

\* The entries handed to new Map(...) for markerAliases, in source order.
MarkerAliasEntries ==
    << [key |-> <<"e", "x", "p", "r", "e", "s", "s", "i", "o", "n">>,
        aliases |-> << <<"p", "h", "r", "a", "s", "e">>, <<"t", "e", "r", "m">>, <<"w", "o", "r", "d">> >>],
       [key |-> <<"r", "e", "a", "d", "i", "n", "g">>,
        aliases |-> << <<"e", "x", "p", "r", "e", "s", "s", "i", "o", "n", "-", "r", "e", "a", "d", "i", "n", "g">>, <<"t", "e", "r", "m", "-", "r", "e", "a", "d", "i", "n", "g">>, <<"w", "o", "r", "d", "-", "r", "e", "a", "d", "i", "n", "g">> >>],
       [key |-> <<"f", "u", "r", "i", "g", "a", "n", "a">>,
        aliases |-> << <<"e", "x", "p", "r", "e", "s", "s", "i", "o", "n", "-", "f", "u", "r", "i", "g", "a", "n", "a">>, <<"t", "e", "r", "m", "-", "f", "u", "r", "i", "g", "a", "n", "a">>, <<"w", "o", "r", "d", "-", "f", "u", "r", "i", "g", "a", "n", "a">> >>],
       [key |-> <<"g", "l", "o", "s", "s", "a", "r", "y">>,
        aliases |-> << <<"d", "e", "f", "i", "n", "i", "t", "i", "o", "n">>, <<"m", "e", "a", "n", "i", "n", "g">> >>],
       [key |-> <<"a", "u", "d", "i", "o">>,
        aliases |-> << <<"s", "o", "u", "n", "d">>, <<"w", "o", "r", "d", "-", "a", "u", "d", "i", "o">>, <<"t", "e", "r", "m", "-", "a", "u", "d", "i", "o">>, <<"e", "x", "p", "r", "e", "s", "s", "i", "o", "n", "-", "a", "u", "d", "i", "o">> >>],
       [key |-> <<"d", "i", "c", "t", "i", "o", "n", "a", "r", "y">>,
        aliases |-> << <<"d", "i", "c", "t">> >>],
       [key |-> <<"p", "i", "t", "c", "h", "-", "a", "c", "c", "e", "n", "t", "s">>,
        aliases |-> << <<"p", "i", "t", "c", "h">>, <<"p", "i", "t", "c", "h", "-", "a", "c", "c", "e", "n", "t">>, <<"p", "i", "t", "c", "h", "-", "p", "a", "t", "t", "e", "r", "n">> >>],
       [key |-> <<"s", "e", "n", "t", "e", "n", "c", "e">>,
        aliases |-> << <<"e", "x", "a", "m", "p", "l", "e", "-", "s", "e", "n", "t", "e", "n", "c", "e">> >>],
       [key |-> <<"f", "r", "e", "q", "u", "e", "n", "c", "y", "-", "h", "a", "r", "m", "o", "n", "i", "c", "-", "r", "a", "n", "k">>,
        aliases |-> << <<"f", "r", "e", "q">>, <<"f", "r", "e", "q", "u", "e", "n", "c", "y">>, <<"f", "r", "e", "q", "-", "s", "o", "r", "t">>, <<"f", "r", "e", "q", "e", "n", "c", "y", "-", "s", "o", "r", "t">> >>],
       [key |-> <<"p", "o", "p", "u", "p", "-", "s", "e", "l", "e", "c", "t", "i", "o", "n", "-", "t", "e", "x", "t">>,
        aliases |-> << <<"s", "e", "l", "e", "c", "t", "i", "o", "n">> >>],
       [key |-> <<"p", "i", "t", "c", "h", "-", "a", "c", "c", "e", "n", "t", "-", "p", "o", "s", "i", "t", "i", "o", "n", "s">>,
        aliases |-> << <<"p", "i", "t", "c", "h", "-", "p", "o", "s", "i", "t", "i", "o", "n">> >>],
       [key |-> <<"p", "i", "t", "c", "h", "-", "a", "c", "c", "e", "n", "t", "-", "c", "a", "t", "e", "g", "o", "r", "i", "e", "s">>,
        aliases |-> << <<"p", "i", "t", "c", "h", "-", "c", "a", "t", "e", "g", "o", "r", "i", "e", "s">> >>],
       [key |-> <<"p", "o", "p", "u", "p", "-", "s", "e", "l", "e", "c", "t", "i", "o", "n", "-", "t", "e", "x", "t">>,
        aliases |-> << <<"s", "e", "l", "e", "c", "t", "i", "o", "n", "-", "t", "e", "x", "t">> >>] >>

\* new Map(entries).get(key): the value of the last entry with that key;
\* None for undefined.
MapGet(entries, key) ==
    LET found == {k \in 1..Len(entries) : entries[k].key = key}
    IN  IF found = {} THEN None
        ELSE Some(entries[CHOOSE k \in found : \A j \in found : j <= k].aliases)

\* names = [marker, ...aliases]
MarkerNames(marker) ==
    LET aliases == MapGet(MarkerAliasEntries, marker)
    IN  IF IsSome(aliases) THEN <<marker>> \o Get(aliases) ELSE <<marker>>

\* The loop over the markers from position k on.
RECURSIVE FirstMatchingMarker(_, _, _)
FirstMatchingMarker(markers, k, fieldName) ==
    IF k > Len(markers) THEN <<>>
    ELSE IF PatternTest(MarkerNames(markers[k]), fieldName) THEN MarkerToken(markers[k])
    ELSE FirstMatchingMarker(markers, k + 1, fieldName)

\* A lookup that goes by the name for the first row too.
GetDefaultFieldValueByName(fieldName, index, dictionaryEntryType, oldFields) ==
    IF IsSome(oldFields) /\ HasOwnProperty(Get(oldFields), fieldName)
    THEN Get(oldFields)[KeyPosition(Get(oldFields), fieldName)].value
    ELSE FirstMatchingMarker(GetStandardFieldMarkers(dictionaryEntryType), 1, fieldName)

\* _getDefaultFieldValue(fieldName, index, dictionaryEntryType, oldFields)
GetDefaultFieldValue(fieldName, index, dictionaryEntryType, oldFields) ==
    IF IsSome(oldFields) /\ HasOwnProperty(Get(oldFields), fieldName)
    THEN Get(oldFields)[KeyPosition(Get(oldFields), fieldName)].value
    ELSE IF index = 0
    THEN (IF dictionaryEntryType = "kanji" THEN <<"{", "c", "h", "a", "r", "a", "c", "t", "e", "r", "}">> ELSE <<"{", "e", "x", "p", "r", "e", "s", "s", "i", "o", "n", "}">>)
    ELSE FirstMatchingMarker(GetStandardFieldMarkers(dictionaryEntryType), 1, fieldName)

\* The field names a default is looked up for.
FieldNameQueries ==
    { <<"T", "e", "r", "m">>,
      <<"T", "e", "r", "m", "-", "R", "e", "a", "d", "i", "n", "g">>,
      <<"u", "n", "k", "n", "o", "w", "n", "-", "f", "i", "e", "l", "d">>,
      <<"r", "e", "a", "d", "i", "n", "g">>,
      <<"R", "E", "A", "D", "I", "N", "G">>,
      <<"t", "e", "r", "m", "_", "r", "e", "a", "d", "i", "n", "g">>,
      <<"T", "e", "r", "m", " ", "-", " ", "R", "e", "a", "d", "i", "n", "g">>,
      <<"t", "e", "r", "m", "r", "e", "a", "d", "i", "n", "g">>,
      <<"r", "e", "a", "d", "-", "i", "n", "g">>,
      <<"t", "-", "e", "r", "m", " ", "r", "e", "a", "d", "i", "n", "g">>,
      <<"s", "e", "l", "e", "c", "t", "i", "o", "n">>,
      <<"S", "e", "l", "e", "c", "t", "i", "o", "n", " ", "T", "e", "x", "t">>,
      <<"s", "e", "l", "e", "c", "t", "i", "o", "n", "_", "t", "e", "x", "t">>,
      <<"w", "o", "r", "d">>,
      <<"E", "x", "p", "r", "e", "s", "s", "i", "o", "n">>,
      <<"-", "r", "e", "a", "d", "i", "n", "g">>,
      <<"r", "e", "a", "d", "i", "n", "g", " ">>,
      <<"f", "r", "e", "q">>,
      <<"F", "r", "e", "q", "e", "n", "c", "y", " ", "S", "o", "r", "t">>,
      <<"p", "i", "t", "c", "h">>,
      <<"P", "i", "t", "c", "h", "_", "A", "c", "c", "e", "n", "t">>,
      <<"p", "i", "t", "c", "h", " ", "a", "c", "c", "e", "n", "t", " ", "p", "o", "s", "i", "t", "i", "o", "n", "s">>,
      <<"m", "e", "a", "n", "i", "n", "g">>,
      <<"d", "i", "c", "t">>,
      <<"S", "o", "u", "n", "d">>,
      <<"e", "x", "a", "m", "p", "l", "e", " ", "s", "e", "n", "t", "e", "n", "c", "e">>,
      <<"F", "r", "o", "n", "t">>,
      <<"c", "h", "a", "r", "a", "c", "t", "e", "r">>,
      <<"O", "n", "y", "o", "m", "i">>,
      <<"p", "o", "p", "u", "p", " ", "s", "e", "l", "e", "c", "t", "i", "o", "n", " ", "t", "e", "x", "t">>,
      <<"S", "e", "n", "t", "e", "n", "c", "e">>,
      <<"c", "l", "i", "p", "b", "o", "a", "r", "d", " ", "t", "e", "x", "t">>,
      <<>> }

\* The names the alias table lists: its keys and their aliases.
ListedNames ==
    UNION {{MarkerAliasEntries[k].key} \cup {MarkerAliasEntries[k].aliases[a] : a \in 1..Len(MarkerAliasEntries[k].aliases)} :
              k \in 1..Len(MarkerAliasEntries)}

\* The row indices a default is looked up for.
IndexQueries == {0, 1, 2}

\* The oldFields arguments: null, or the field map of a format.
OldFieldsQueries ==
    { None,
      Some(<< [name |-> <<"r", "e", "a", "d", "i", "n", "g">>, value |-> <<"{", "f", "u", "r", "i", "g", "a", "n", "a", "}">>, overwriteMode |-> "coalesce"],
              [name |-> <<"F", "r", "o", "n", "t">>, value |-> <<>>, overwriteMode |-> "coalesce"] >>) }

\* The card controller as its constructor leaves it.
CardConstructed ==
    /\ cardControllerIndex = 0
    /\ thisCardFormat = None
    /\ fields = <<>>
    /\ fieldEntries = <<>>
    /\ rows = <<>>
    /\ cleaned = FALSE
    /\ cardListeners = {}
    /\ granted = FALSE
    /\ focused = None
    /\ cardTasks = <<>>
    /\ cardOps = 0
    /\ cardLast = NoCardLast

\* A caller asks for the default of a field name.
GetDefaultFieldValueCall ==
    /\ defaultValue = None
    /\ defaultValue' = Some(GetDefaultFieldValue(queryFieldName, queryIndex, queryType, queryOldFields))
    /\ UNCHANGED <<queryFieldName, queryIndex, queryType, queryOldFields, fieldMenu>>
    /\ UNCHANGED <<listVars, cardVars, fetchVars, menuVars>>

\* /^\{([\w\W]+)\}$/.exec(defaultValue): match[1], or the empty tuple for no match.
DefaultMarker(value) ==
    IF Len(value) >= 3 /\ value[1] = "{" /\ value[Len(value)] = "}"
    THEN SubSeq(value, 2, Len(value) - 1)
    ELSE <<>>

\* menu.bodyNode.querySelector(`.popup-menu-item[data-marker="${defaultMarker}"]`)
\* in the menu of a type: whether it finds an item.
MenuHasItem(type, marker) ==
    \E k \in 1..Len(GetStandardFieldMarkers(type)) : GetStandardFieldMarkers(type)[k] = marker

\* _onFieldMenuOpen of the menu button of the row queryIndex, whose dataset
\* names the field queryFieldName, in an editor of a format of queryType: the
\* default is looked up with oldFields null, and its item is shown bold.
FieldMenuOpen ==
    /\ defaultValue = None
    /\ queryOldFields = None
    /\ LET value == GetDefaultFieldValue(queryFieldName, Get(ParseInt(NumberToString(queryIndex))),
                                          queryType, None)
           marker == DefaultMarker(value)
       IN  /\ defaultValue' = Some(value)
           /\ fieldMenu' = [fieldMenu EXCEPT !.opened = TRUE,
                                             !.bold = IF marker # <<>> /\ MenuHasItem(fieldMenu.type, marker)
                                                      THEN marker ELSE <<>>]
    /\ UNCHANGED <<queryFieldName, queryIndex, queryType, queryOldFields>>
    /\ UNCHANGED <<listVars, cardVars, fetchVars, menuVars>>

MarkerNext == GetDefaultFieldValueCall \/ FieldMenuOpen

\* A default lookup with its arguments chosen and the call still to be made.
MarkerInit ==
    /\ overlapBudget = 0
    /\ ListAtRest(SubSeq(InitFormats, 1, 2))
    /\ CardConstructed
    /\ FetchConstructed
    /\ MenusConstructed
    /\ ankiEnabled = FALSE
    /\ queryFieldName \in FieldNameQueries \cup ListedNames
    /\ queryIndex \in IndexQueries
    /\ queryType \in {"term", "kanji"}
    /\ queryOldFields \in OldFieldsQueries
    /\ defaultValue = None
    /\ \E type \in {"term", "kanji"} : fieldMenu = [type |-> type, opened |-> FALSE, bold |-> <<>>]

SpecMarker == MarkerInit /\ [][MarkerNext]_vars

\* ------------------------------------------------ AnkiController: name fetch

\* this._stringComparer: the order the collator puts the names in.
CollatorOrder == <<"Default", "Mining", "Sentences">>

CollatorRank(name) == CHOOSE k \in 1..Len(CollatorOrder) : CollatorOrder[k] = name

\* array.sort((a, b) => stringComparer.compare(a, b))
RECURSIVE SortStringArray(_)
SortStringArray(array) ==
    IF Len(array) <= 1 THEN array
    ELSE LET least == CHOOSE k \in 1..Len(array) :
                          \A j \in 1..Len(array) :
                              \/ CollatorRank(array[k]) < CollatorRank(array[j])
                              \/ CollatorRank(array[k]) = CollatorRank(array[j]) /\ k <= j
         IN  <<array[least]>> \o SortStringArray(SubSeq(array, 1, least - 1) \o SubSeq(array, least + 1, Len(array)))

\* What AnkiConnect answers a name request with: a list of names, or an error.
NameLists == {<<>>, <<"Sentences", "Default", "Mining">>}

ErrorMessages == {<<"F", "a", "i", "l">>, <<"N", "o", "!">>, <<"W", "h", "y", "?">>, <<"D", "o", "n", "e", ".">>, <<>>}

Replies ==
    [ok : {TRUE}, names : NameLists, message : {<<>>}]
        \cup [ok : {FALSE}, names : {<<>>}, message : ErrorMessages]

\* _getDeckNames() and _getModelNames(): [result, null], or [[], error] when
\* the request failed.
GetNames(reply) ==
    IF reply.ok
    THEN [names |-> SortStringArray(reply.names), error |-> None]
    ELSE [names |-> <<>>, error |-> Some([message |-> reply.message])]

\* `${error}` of an Error.
ErrorToString(error) ==
    IF error.message = <<>> THEN <<"E", "r", "r", "o", "r">>
    ELSE <<"E", "r", "r", "o", "r", ":", " ">> \o error.message

\* The message shown as it is.
ErrorStringAsIs(error) == error.message

\* The textContent _showAnkiError writes.
ErrorString(error) ==
    LET errorString == IF error.message # <<>> THEN error.message ELSE ErrorToString(error)
    IN  IF errorString[Len(errorString)] \in {".", "!", "?"}
        THEN errorString
        ELSE errorString \o <<".">>

\* A status that reads Enabled whatever the integration's state is.
EnabledStringAlways(enabled) == <<"E", "n", "a", "b", "l", "e", "d">>

\* The textContent _hideAnkiError writes.
EnabledString(enabled) == IF enabled THEN <<"E", "n", "a", "b", "l", "e", "d">> ELSE <<"N", "o", "t", " ", "e", "n", "a", "b", "l", "e", "d">>

\* A getAnkiData() call that finds a fetch cached starts another all the same.
StartsFetchAlways(promise) == TRUE

\* if (promise === null): the call starts a fetch.
StartsFetch(promise) == promise = None

\* The promise an async function returns: a new one at every call, which a
\* promise returned from the body resolves and never replaces.
ReturnedPromise(function, call) == [function |-> function, call |-> call]

\* An invocation of _getAnkiData() suspended at its Promise.all.
NewFetch(call) == [promise |-> ReturnedPromise("_getAnkiData", call), deckNames |-> None, modelNames |-> None, settled |-> FALSE, data |-> None]

\* The fetches whose promise has not settled.
InFlight == {f \in 1..Len(fetches) : ~fetches[f].settled}

\* getAnkiData(): reuses the cached promise or starts a fetch and caches its
\* promise, and returns a promise resolved with that one. A starting call runs
\* _getAnkiData up to its await, which resets the status area and issues the
\* two name requests. The cache names the fetch whose promise it holds.
GetAnkiDataCall ==
    /\ Len(callers) + Len(noteCalls) < MaxFetchCalls
    /\ IF StartsFetch(getAnkiDataPromise)
       THEN /\ fetches' = Append(fetches, NewFetch(Len(fetches) + 1))
            /\ getAnkiDataPromise' = Some(Len(fetches) + 1)
            /\ statusText' = DefaultContent
            /\ statusDanger' = FALSE
            /\ callers' = Append(callers, [fetch |-> Len(fetches) + 1, data |-> None,
                                           returned |-> ReturnedPromise("getAnkiData", Len(callers) + 1),
                                           inFlight |-> InFlight, requests |-> 2])
       ELSE /\ callers' = Append(callers, [fetch |-> Get(getAnkiDataPromise),
                                           data |-> fetches[Get(getAnkiDataPromise)].data,
                                           returned |-> ReturnedPromise("getAnkiData", Len(callers) + 1),
                                           inFlight |-> InFlight, requests |-> 0])
            /\ UNCHANGED <<fetches, getAnkiDataPromise, statusText, statusDanger>>
    /\ UNCHANGED <<ankiEnabled, ankiError, noteCalls>>
    /\ UNCHANGED <<listVars, cardVars, markerVars, menuVars>>

\* A finally callback that leaves the cache as it is.
FinallyCallbackKeeps(cached) == cached

\* promise.finally(() => { this._getAnkiDataPromise = null; }): the cache after
\* the callback ran.
FinallyCallback(cached) == None

\* {deckNames, modelNames}
AnkiData(fetch) == [deckNames |-> Get(fetch.deckNames).names, modelNames |-> Get(fetch.modelNames).names]

\* A name request of fetch f was answered. While the other request is
\* pending, Promise.all keeps waiting. Else _getAnkiData resumes: it shows the
\* deck error, else the model error, else hides the error, and returns; the
\* finally callback clears the cache; the callers holding the promise resume.
Answered(f, fetch) ==
    IF fetch.deckNames = None \/ fetch.modelNames = None
    THEN /\ fetches' = [fetches EXCEPT ![f] = fetch]
         /\ UNCHANGED <<getAnkiDataPromise, callers, statusText, statusDanger, ankiError>>
    ELSE LET deckError == Get(fetch.deckNames).error
             modelError == Get(fetch.modelNames).error
             shown == IF IsSome(deckError) THEN deckError ELSE modelError
         IN  /\ fetches' = [fetches EXCEPT ![f] = [fetch EXCEPT !.settled = TRUE, !.data = Some(AnkiData(fetch))]]
             /\ getAnkiDataPromise' = FinallyCallback(getAnkiDataPromise)
             /\ callers' = [c \in 1..Len(callers) |->
                               IF callers[c].fetch = f
                               THEN [callers[c] EXCEPT !.data = Some(AnkiData(fetch))]
                               ELSE callers[c]]
             /\ IF IsSome(shown)
                THEN /\ ankiError' = shown
                     /\ statusText' = TextContent(ErrorString(Get(shown)))
                     /\ statusDanger' = TRUE
                ELSE /\ ankiError' = None
                     /\ statusText' = TextContent(EnabledString(ankiEnabled))
                     /\ statusDanger' = FALSE

\* this._ankiConnect.getDeckNames() of fetch f settles.
DeckNamesReply(f, reply) ==
    /\ f \in 1..Len(fetches)
    /\ fetches[f].deckNames = None
    /\ Answered(f, [fetches[f] EXCEPT !.deckNames = Some(GetNames(reply))])
    /\ UNCHANGED <<ankiEnabled, noteCalls>>
    /\ UNCHANGED <<listVars, cardVars, markerVars, menuVars>>

\* this._ankiConnect.getModelNames() of fetch f settles.
ModelNamesReply(f, reply) ==
    /\ f \in 1..Len(fetches)
    /\ fetches[f].modelNames = None
    /\ Answered(f, [fetches[f] EXCEPT !.modelNames = Some(GetNames(reply))])
    /\ UNCHANGED <<ankiEnabled, noteCalls>>
    /\ UNCHANGED <<listVars, cardVars, markerVars, menuVars>>

\* _onAnkiEnableChanged: the enable toggle was bound to a new value.
AnkiEnableChanged(value) ==
    /\ ankiEnabled' = value
    /\ UNCHANGED <<getAnkiDataPromise, fetches, callers, statusText, statusDanger, ankiError, noteCalls>>
    /\ UNCHANGED <<listVars, cardVars, markerVars, menuVars>>

FetchNext ==
    \/ GetAnkiDataCall
    \/ \E f \in 1..MaxFetchCalls : \E reply \in Replies : DeckNamesReply(f, reply)
    \/ \E f \in 1..MaxFetchCalls : \E reply \in Replies : ModelNamesReply(f, reply)
    \/ \E value \in BOOLEAN : AnkiEnableChanged(value)

\* The controller after prepare(), before any getAnkiData() call.
FetchInit ==
    /\ overlapBudget = 0
    /\ ListAtRest(SubSeq(InitFormats, 1, 2))
    /\ CardConstructed
    /\ MarkerIdle
    /\ FetchConstructed
    /\ MenusConstructed
    /\ ankiEnabled \in BOOLEAN

SpecFetch == FetchInit /\ [][FetchNext]_vars

\* The methods that hand a call through to AnkiConnect.
NoteApiMethods == {"addNotes", "canAddNotes", "getModelFieldNames"}

\* addNotes(notes), canAddNotes(notes), getModelFieldNames(model): the call is
\* issued to AnkiConnect and the method suspends at its await.
NoteApiCall(method) ==
    /\ Len(callers) + Len(noteCalls) < MaxFetchCalls
    /\ noteCalls' = Append(noteCalls, [method |-> method, state |-> "pending", result |-> None, error |-> None])
    /\ UNCHANGED <<getAnkiDataPromise, fetches, callers, ankiEnabled, statusText, statusDanger, ankiError>>
    /\ UNCHANGED <<listVars, cardVars, markerVars, menuVars>>

\* return await this._ankiConnect.<method>(...): the method resolves with the
\* result, or rejects with the error AnkiConnect threw.
NoteApiReply(k, reply) ==
    /\ k \in 1..Len(noteCalls)
    /\ noteCalls[k].state = "pending"
    /\ noteCalls' = [noteCalls EXCEPT ![k] =
                        IF reply.ok
                        THEN [@ EXCEPT !.state = "resolved", !.result = Some(reply.names)]
                        ELSE [@ EXCEPT !.state = "rejected", !.error = Some([message |-> reply.message])]]
    /\ UNCHANGED <<getAnkiDataPromise, fetches, callers, ankiEnabled, statusText, statusDanger, ankiError>>
    /\ UNCHANGED <<listVars, cardVars, markerVars, menuVars>>

RemoteNext ==
    \/ GetAnkiDataCall
    \/ \E f \in 1..MaxFetchCalls : \E reply \in Replies : DeckNamesReply(f, reply)
    \/ \E f \in 1..MaxFetchCalls : \E reply \in Replies : ModelNamesReply(f, reply)
    \/ \E method \in NoteApiMethods : NoteApiCall(method)
    \/ \E k \in 1..MaxFetchCalls : \E reply \in Replies : NoteApiReply(k, reply)

\* Every remote method of the controller, called in any order.
SpecRemote == FetchInit /\ [][RemoteNext]_vars

\* ---------------------------------------------------- AnkiController: menus

\* The UTF-16 order of the characters marker names are made of.
CodeUnitOrder ==
    <<"-", "0", "1", "2", "3", "4", "5", "6", "7", "8", "9">> \o LowerCaseLetters

CodeUnit(c) == CHOOSE k \in 1..Len(CodeUnitOrder) : CodeUnitOrder[k] = c

\* a < b as Array.prototype.sort() without a comparator orders strings.
RECURSIVE StringLess(_, _)
StringLess(a, b) ==
    IF Len(b) = 0 THEN FALSE
    ELSE IF Len(a) = 0 THEN TRUE
    ELSE IF Head(a) = Head(b) THEN StringLess(Tail(a), Tail(b))
    ELSE CodeUnit(Head(a)) < CodeUnit(Head(b))

\* markers.sort()
RECURSIVE SortStrings(_)
SortStrings(array) ==
    IF Len(array) <= 1 THEN array
    ELSE LET least == CHOOSE k \in 1..Len(array) :
                          \A j \in 1..Len(array) :
                              \/ StringLess(array[k], array[j])
                              \/ array[k] = array[j] /\ k <= j
                              \/ k = j
         IN  <<array[least]>> \o SortStrings(SubSeq(array, 1, least - 1) \o SubSeq(array, least + 1, Len(array)))

\* [...new Set(array)]: the first occurrence of each element, in order.
RECURSIVE Unique(_)
Unique(array) ==
    IF Len(array) = 0 THEN <<>>
    ELSE LET front == SubSeq(array, 1, Len(array) - 1)
             last1 == array[Len(array)]
         IN  IF \E k \in 1..Len(front) : front[k] = last1
             THEN Unique(front)
             ELSE Unique(front) \o <<last1>>

\* fieldMenuTargets
FieldMenuTargets ==
    << [types |-> <<"term">>, templateName |-> "anki-card-term-field-menu"],
       [types |-> <<"kanji">>, templateName |-> "anki-card-kanji-field-menu"],
       [types |-> <<"term", "kanji">>, templateName |-> "anki-card-all-field-menu"] >>

\* The standard markers of a target's types, in the order they are pushed.
RECURSIVE StandardMarkers(_)
StandardMarkers(types) ==
    IF Len(types) = 0 THEN <<>>
    ELSE GetStandardFieldMarkers(Head(types)) \o StandardMarkers(Tail(types))

\* types.includes('term')
IncludesTerm(types) == \E k \in 1..Len(types) : types[k] = "term"

\* The dictionaries option and the dictionary info of the backend: the names
\* of the enabled and of the installed dictionaries.
DictionaryLists == {<<>>, <<<<"j", "m", "d", "i", "c", "t">>>>}

\* getDynamicFieldMarkers(dictionaries, dictionaryInfo) of
\* data/anki-template-util.js: one marker per enabled dictionary that is installed.
GetDynamicFieldMarkers(dictionaries, dictionaryInfo) ==
    LET usable == SelectSeq(dictionaries, LAMBDA d : \E k \in 1..Len(dictionaryInfo) : dictionaryInfo[k] = d)
    IN  [k \in 1..Len(usable) |-> <<"s", "i", "n", "g", "l", "e", "-", "g", "l", "o", "s", "s", "a", "r", "y", "-">> \o usable[k]]

\* The children the fragment adds for a list of markers.
MenuOptions(markers) == Unique(SortStrings(markers))

\* container.appendChild(fragment): the container's children afterwards.
AppendFragment(children, markers) == children \o MenuOptions(markers)

\* The loop of _setupFieldMenus from target k on, starting with the menus m:
\* the menus it leaves, and the target it suspends at (0 when it ran to its
\* end or returned).
RECURSIVE SetupFieldMenusFrom(_, _)
SetupFieldMenusFrom(k, m) ==
    IF k > Len(FieldMenuTargets) THEN [menus |-> m, at |-> 0]
    ELSE LET target == FieldMenuTargets[k]
             name == target.templateName
         IN  IF menuTemplates[name] = "missing" THEN SetupFieldMenusFrom(k + 1, m)
             ELSE IF menuTemplates[name] = "bodiless" THEN [menus |-> m, at |-> 0]
             ELSE IF IncludesTerm(target.types)
             THEN [menus |-> [m EXCEPT ![name] = <<>>], at |-> k]
             ELSE SetupFieldMenusFrom(k + 1, [m EXCEPT ![name] =
                                                  AppendFragment(<<>>, StandardMarkers(target.types))])

\* A setup that ran up to target k (or to its end) joins or leaves the
\* suspended ones.
MenuTask(dictionaries, at) == [dictionaries |-> dictionaries, at |-> at]

\* _onOptionsChanged: void this._setupFieldMenus(dictionaries), up to its
\* first await.
SetupFieldMenusCall(dictionaries) ==
    /\ menuCalls < MaxMenuSetups
    /\ menuCalls' = menuCalls + 1
    /\ LET run == SetupFieldMenusFrom(1, menus)
       IN  /\ menus' = run.menus
           /\ menuTasks' = IF run.at = 0 THEN menuTasks
                           ELSE Append(menuTasks, MenuTask(dictionaries, run.at))
    /\ UNCHANGED menuTemplates
    /\ UNCHANGED <<listVars, cardVars, markerVars, fetchVars>>

\* getDictionaryInfo() answers the setup i: it fills the container of its
\* target and goes on with the next targets.
DictionaryInfoReply(i, dictionaryInfo) ==
    /\ i \in 1..Len(menuTasks)
    /\ LET task == menuTasks[i]
           target == FieldMenuTargets[task.at]
           markers == StandardMarkers(target.types) \o GetDynamicFieldMarkers(task.dictionaries, dictionaryInfo)
           filled == [menus EXCEPT ![target.templateName] = AppendFragment(@, markers)]
           run == SetupFieldMenusFrom(task.at + 1, filled)
       IN  /\ menus' = run.menus
           /\ menuTasks' = IF run.at = 0 THEN WithoutTask(menuTasks, i)
                           ELSE [menuTasks EXCEPT ![i] = MenuTask(task.dictionaries, run.at)]
    /\ UNCHANGED <<menuTemplates, menuCalls>>
    /\ UNCHANGED <<listVars, cardVars, markerVars, fetchVars>>

MenuNext ==
    \/ \E dictionaries \in DictionaryLists : SetupFieldMenusCall(dictionaries)
    \/ \E i \in 1..MaxMenuSetups : \E dictionaryInfo \in DictionaryLists : DictionaryInfoReply(i, dictionaryInfo)

\* The templates a document can hold: all three with a body, or one of them
\* missing or without its .popup-menu-body.
TemplateStates ==
    {[name \in FieldMenuNames |-> "present"]}
        \cup {[[name \in FieldMenuNames |-> "present"] EXCEPT ![broken] = how] :
                 broken \in FieldMenuNames, how \in {"missing", "bodiless"}}

\* The controller before its first options change.
MenuInit ==
    /\ overlapBudget = 0
    /\ ListAtRest(SubSeq(InitFormats, 1, 2))
    /\ CardConstructed
    /\ MarkerIdle
    /\ FetchConstructed
    /\ ankiEnabled = FALSE
    /\ menuTemplates \in TemplateStates
    /\ menus = [name \in FieldMenuNames |-> <<>>]
    /\ menuTasks = <<>>
    /\ menuCalls = 0

SpecMenu == MenuInit /\ [][MenuNext]_vars

\* ------------------------------------------------------------ properties

\* The list without the element at 0-based position i.
RemoveAt(list, i) ==
    [j \in 1..(Len(list) - 1) |-> IF j <= i THEN list[j] ELSE list[j + 1]]

\* The handler that has just finished with the reload that ends it.
Finished(kind) == last.op = "reload" /\ last.task.kind = kind

WritePending(t) == tasks[t].pc = "modify"

Written(t) == tasks[t].pc \in {"modified", "reloadGet", "reloadGot"}

\* C1: in every reachable state, also when handlers overlap at their awaits,
\* the persisted card-format list has at least 1 and at most 5 elements.
C1_LengthBetweenOneAndFive ==
    Len(stored) >= 1 /\ Len(stored) <= MaxCardFormats

\* C2: _addNewFormat run on a list of length 5 writes nothing, leaves the list
\* as it was and shows the maximum notice; run on a list of length n < 5 it
\* writes, and the list has exactly n + 1 <= 5 elements from the write on.
C2_AddFormatNeverPastFive ==
    /\ \A t \in TaskIds :
        tasks[t].kind = "add" =>
            /\ Len(tasks[t].startList) >= MaxCardFormats =>
                  /\ ~WritePending(t) /\ ~Written(t)
                  /\ stored = tasks[t].startList
            /\ WritePending(t) => stored = tasks[t].startList
            /\ Written(t) =>
                  /\ Len(stored) = Len(tasks[t].startList) + 1
                  /\ Len(stored) <= MaxCardFormats
    /\ last.op = "addRefused" =>
          /\ Len(last.task.startList) = MaxCardFormats
          /\ stored = last.task.startList
          /\ maximumModalVisible
          /\ Quiet
    /\ Finished("add") =>
          /\ Len(last.task.startList) < MaxCardFormats
          /\ Len(stored) = Len(last.task.startList) + 1

\* A sixth attempt has been refused and, after a delete made room, a later
\* attempt has grown the list by one.
C2_Witness ==
    /\ maximumModalVisible
    /\ Finished("add")
    /\ Len(stored) = Len(last.task.startList) + 1

\* C3: on a single-element list deleteCardFormat(0), called directly or
\* through the confirmation, issues no settings write and leaves the list as
\* it is.
C3_SingleElementDeleteIsNoOp ==
    /\ \A t \in TaskIds : tasks[t].kind = "delete" => Len(tasks[t].startList) # 1
    /\ Finished("delete") => Len(last.task.startList) # 1

\* C4: deleteCardFormat(i) with 0 <= i < n on a list of length n >= 2 removes
\* exactly the element at position i, keeping the others in order, and after
\* the reload that ends it the selected index is within 0..n-2.
C4_DeleteRemovesPositionI ==
    /\ \A t \in TaskIds :
        (tasks[t].kind = "delete" /\ Len(tasks[t].startList) >= 2) =>
            /\ tasks[t].index >= 0 /\ tasks[t].index < Len(tasks[t].startList)
            /\ WritePending(t) => stored = tasks[t].startList
            /\ Written(t) => stored = RemoveAt(tasks[t].startList, tasks[t].index)
    /\ (Finished("delete") /\ Len(last.task.startList) >= 2) =>
          /\ stored = RemoveAt(last.task.startList, last.task.index)
          /\ Len(stored) = Len(last.task.startList) - 1
          /\ cardFormatIndex >= 0
          /\ cardFormatIndex <= Len(last.task.startList) - 2

\* The last of three or more formats has been deleted and the list reloaded.
C4_Witness ==
    /\ Finished("delete")
    /\ Len(last.task.startList) >= 3
    /\ last.task.index = Len(last.task.startList) - 1
    /\ last.ok

\* C5: after every reload (_onOptionsChanged), whatever list of n >= 1
\* formats is delivered and whatever the index was before, the selected
\* index satisfies 0 <= index <= n - 1.
C5_IndexValidAfterReload ==
    (last.op = "reload" /\ Len(Get(ankiOptions)) >= 1) =>
        /\ cardFormatIndex >= 0
        /\ cardFormatIndex <= Len(Get(ankiOptions)) - 1

\* C6: after deleteCardFormat(i) on a list of two or more formats with
\* selection s, the selection is max(s - 1, 0) when i <= s and s otherwise.
C6_SelectionFollowsCursor ==
    (Finished("delete") /\ Len(last.task.startList) >= 2) =>
        cardFormatIndex = IF last.task.index <= last.task.startIndex
                          THEN Max(last.task.startIndex - 1, 0)
                          ELSE last.task.startIndex

\* The remove modal holds a pending index that is valid for the list shown.
PendingIndexValid(modal) ==
    /\ IsSome(ankiOptions)
    /\ \E i \in 0..(Len(Get(ankiOptions)) - 1) : modal.cardFormatIndex = Some(NumberToString(i))

NoDeleteUnderWay == \A t \in TaskIds : tasks[t].kind # "delete"

\* C7: of the events only the confirmation starts a delete; a confirmation
\* with a valid pending index starts exactly one, for that index, and it
\* removes exactly one element; a confirmation with no pending index or one
\* out of range starts none; every confirmation clears the pending index; and
\* the delete click opens no modal when only one format exists.
C7_RemovalOnlyByConfirmation ==
    /\ last.op \in {"deleteClick", "tabChange", "newFormatClick", "settingChanged"} =>
          NoDeleteUnderWay
    /\ last.op = "confirm" =>
          /\ removeModal = ClosedModal
          /\ last.ok = PendingIndexValid(last.modal)
          /\ ~PendingIndexValid(last.modal) => Quiet
          /\ PendingIndexValid(last.modal) =>
                /\ Cardinality({t \in TaskIds : tasks[t].kind # "idle"}) = 1
                /\ \E t \in TaskIds :
                      /\ tasks[t].kind = "delete" /\ WritePending(t)
                      /\ last.modal.cardFormatIndex = Some(NumberToString(tasks[t].index))
    /\ \A t \in TaskIds :
          (tasks[t].kind = "delete" /\ Written(t)) =>
              Len(stored) = Len(tasks[t].startList) - 1
    /\ Finished("delete") => Len(stored) = Len(last.task.startList) - 1
    /\ (last.op = "deleteClick" /\ Len(Get(ankiOptions)) = 1) => removeModal = last.modal

\* A second confirm click with the remove modal not opened again: the first
\* confirmation consumed the index the delete click had left.
C7_Witness ==
    /\ last.op = "confirm" /\ ~last.ok
    /\ last.modal.cardFormatIndex = None
    /\ removeName # ""
    /\ calls = 0

\* C8: a successful _addNewFormat on a list of length n < 5 appends, at
\* position n, the format named 'Format <n+1>' of type term with empty deck
\* and model, no fields and icon big-circle; the formats already there keep
\* position and contents, and the selected index is unchanged.
C8_AddAppendsDefaultFormat ==
    LET Appended(list) ==
            Append(list, [name |-> FormatNames[Len(list) + 1], type |-> "term", deck |-> "",
                          model |-> "", fields |-> <<>>, icon |-> "big-circle"])
    IN /\ \A t \in TaskIds :
            (tasks[t].kind = "add" /\ Written(t)) =>
                /\ stored = Appended(tasks[t].startList)
                /\ cardFormatIndex = tasks[t].startIndex
       /\ Finished("add") =>
            /\ stored = Appended(last.task.startList)
            /\ cardFormatIndex = last.task.startIndex

\* A format has been added to two or more formats with a later tab selected.
C8_Witness ==
    /\ Finished("add")
    /\ Len(last.task.startList) >= 2
    /\ last.task.startIndex >= 1
    /\ last.ok

\* C9: a _setCardFormatIndex that fails for want of a panel element leaves
\* the selected index and every binding of the panel as they were.
C9_FailedSelectIsNoOp ==
    (last.op = "tabChange" /\ ~last.ok) =>
        /\ cardFormatIndex = last.index
        /\ panel = last.panel

\* C10: after each reload the tab strip holds one tab per format, in list
\* order, tab i carrying index i and the format's name and type; exactly one
\* tab is checked, the one at the selected index; the delete button is
\* disabled iff the list has at most one format.
C10_TabStripRebuilt ==
    last.op = "reload" =>
        LET list == Get(ankiOptions)
        IN /\ Len(tabs) = Len(list)
           /\ \A i \in 1..Len(tabs) :
                /\ tabs[i].cardFormatIndex = NumberToString(i - 1)
                /\ tabs[i].label = list[i].name
                /\ tabs[i].value = list[i].type
           /\ Cardinality({i \in 1..Len(tabs) : tabs[i].checked}) = 1
           /\ \A i \in 1..Len(tabs) : tabs[i].checked <=> (i - 1 = cardFormatIndex)
           /\ deleteDisabled <=> (Len(list) <= 1)

\* -------------------------------------------- properties of the field editor

\* The k-th name of the sequence Field, Field1, Field2, ...
FieldNameCandidate(k) ==
    IF k = 0 THEN <<"F", "i", "e", "l", "d">>
    ELSE <<"F", "i", "e", "l", "d">> \o NumberToString(k)

Keys(obj) == {obj[k].name : k \in 1..Len(obj)}

\* name is the first candidate that is not a key of obj.
FirstFreeName(obj, name) ==
    \E k \in 0..Len(obj) :
        /\ name = FieldNameCandidate(k)
        /\ name \notin Keys(obj)
        /\ \A j \in 0..(k - 1) : FieldNameCandidate(j) \in Keys(obj)

\* The rows show the field map obj: one row per field, in map order, row i
\* carrying index i, the field's name and its value.
RowsShow(obj) ==
    /\ Len(rows) = Len(obj)
    /\ \A i \in 1..Len(obj) :
        /\ rows[i].index = NumberToString(i - 1)
        /\ rows[i].name = obj[i].name
        /\ rows[i].value = obj[i].value

CardFinished(op) == cardLast.op = op

\* C11: _onAddFieldClick run on a field map generates the first name of
\* Field, Field1, Field2, ... that is not a key of the map, writes and adopts
\* the map with that name appended after all existing fields with an empty
\* value and policy coalesce, every existing field unchanged in name, value,
\* policy and position, and re-renders the rows from it.
C11_AddFieldAppendsFreshName ==
    LET Added(obj, name) ==
            obj \o <<[name |-> name, value |-> <<>>, overwriteMode |-> "coalesce"]>>
    IN /\ \A i \in 1..Len(cardTasks) :
            cardTasks[i].kind = "add" =>
                /\ FirstFreeName(cardTasks[i].startFields, cardTasks[i].name)
                /\ cardTasks[i].newFields = Added(cardTasks[i].startFields, cardTasks[i].name)
                /\ cardTasks[i].pc = "modify" => StoredFields = cardTasks[i].startStored
                /\ cardTasks[i].pc = "modified" => StoredFields = cardTasks[i].newFields
       /\ CardFinished("added") =>
            /\ FirstFreeName(cardLast.task.startFields, cardLast.task.name)
            /\ fields = Added(cardLast.task.startFields, cardLast.task.name)
            /\ StoredFields = fields
            /\ RowsShow(fields)

\* A field has been added to a map that held Field and Field1: it is Field2.
C11_Witness ==
    /\ CardFinished("added")
    /\ cardLast.task.name = <<"F", "i", "e", "l", "d", "2">>
    /\ Len(fields) = 4

DistinctNames(obj) == \A i, j \in 1..Len(obj) : obj[i].name = obj[j].name => i = j

\* Only add-field clicks are under way.
OnlyAddsPending == \A i \in 1..Len(cardTasks) : cardTasks[i].kind \in {"add", "permission"}

\* C12: every add-field click, also one that arrives while an earlier click
\* still awaits its settings write, leaves the persisted field map with
\* exactly one field more than before its write, under a name no other field
\* has, and with every field that was persisted before still there.
C12_RepeatedAddNeverCollides ==
    (cardLast.op = "modify" /\ cardLast.task.kind = "add" /\ OnlyAddsPending) =>
        /\ Len(StoredFields) = Len(cardLast.stored) + 1
        /\ DistinctNames(StoredFields)
        /\ \A k \in 1..Len(cardLast.stored) :
              \E j \in 1..Len(StoredFields) : StoredFields[j] = cardLast.stored[k]

Spaces(n) == [k \in 1..n |-> " "]

\* t is the text s without the spaces at its two ends.
IsTrimOf(t, s) ==
    /\ \E a, b \in 0..Len(s) : s = Spaces(a) \o t \o Spaces(b)
    /\ t = <<>> \/ (t[1] # " " /\ t[Len(t)] # " ")

\* A blur of a name input has just been handled by a live editor.
BlurHandled ==
    /\ cardLast.op \in {"renameSame", "renameRejected", "renameWrite"}
    /\ cardLast.row < Len(cardLast.entries)

\* The name the blurred row's field had when the blur arrived.
BlurOldName == cardLast.entries[cardLast.row + 1].fieldName

\* The rows as they were before the step, the blurred row's name input
\* showing name.
RowsBeforeShowing(name) == [cardLast.rows EXCEPT ![cardLast.row + 1].name = name]

\* C13: a blur whose trimmed text is empty, or is the name of another field
\* of the map, is rejected: the field map and the persisted map are as
\* before, no settings write is pending, the rows are the rows of before (no
\* re-render) with the name input showing the old name again.
C13_RejectedRenameReverts ==
    BlurHandled =>
        \A t \in {<<>>} \cup Keys(cardLast.fields) :
            (IsTrimOf(t, cardLast.input) /\ t # BlurOldName) =>
                /\ cardLast.op = "renameRejected"
                /\ fields = cardLast.fields
                /\ StoredFields = cardLast.stored
                /\ fieldEntries = cardLast.entries
                /\ CardQuiet
                /\ rows = RowsBeforeShowing(BlurOldName)

\* The name of another field, typed with spaces around it, has been rejected.
C13_Witness ==
    /\ cardLast.op = "renameRejected"
    /\ cardLast.input = <<" ", "F", "r", "o", "n", "t", " ">>
    /\ rows[cardLast.row + 1].name = <<"B", "a", "c", "k">>
    /\ cardLast.rows[cardLast.row + 1].name = cardLast.input

\* C14: a blur whose trimmed text is the field's current name changes
\* nothing: the field map, the persisted map, the entries and the rows are as
\* they were and no settings write is pending.
C14_RenameToOwnNameIsNoOp ==
    (BlurHandled /\ IsTrimOf(BlurOldName, cardLast.input)) =>
        /\ cardLast.op = "renameSame"
        /\ fields = cardLast.fields
        /\ StoredFields = cardLast.stored
        /\ fieldEntries = cardLast.entries
        /\ rows = cardLast.rows
        /\ CardQuiet

\* The field Front has been given its own name, typed with spaces around it.
C14_Witness ==
    /\ cardLast.op = "renameSame"
    /\ cardLast.input = <<" ", "F", "r", "o", "n", "t", " ">>
    /\ BlurOldName = <<"F", "r", "o", "n", "t">>

Position(obj, name) == CHOOSE k \in 1..Len(obj) : obj[k].name = name

\* C15: a rename of field old to a non-empty unused trimmed name new ends
\* with a map of the same size whose keys are the old keys without old plus
\* new; new carries the value and policy old had, every other field keeps
\* its value and policy, the other fields keep their relative order, the map
\* is the persisted one and the rows are re-rendered from it.
C15_RenameRekeysMap ==
    /\ cardLast.op = "renameWrite" =>
          LET task == cardTasks[Len(cardTasks)]
          IN /\ task.kind = "rename" /\ task.pc = "modify"
             /\ IsTrimOf(task.name, cardLast.input)
             /\ task.name # <<>> /\ task.name \notin Keys(cardLast.fields)
             /\ StoredFields = cardLast.stored
    /\ CardFinished("renamed") =>
          LET before == cardLast.task.startFields
              old == cardLast.entries[cardLast.task.row + 1].fieldName
              new == cardLast.task.name
              others == Keys(before) \ {old}
          IN /\ old \in Keys(before) /\ new \notin Keys(before)
             /\ DistinctNames(fields)
             /\ Keys(fields) = others \cup {new}
             /\ Len(fields) = Len(before)
             /\ fields[Position(fields, new)].value = before[Position(before, old)].value
             /\ fields[Position(fields, new)].overwriteMode = before[Position(before, old)].overwriteMode
             /\ \A n \in others : fields[Position(fields, n)] = before[Position(before, n)]
             /\ \A n, m \in others :
                   Position(before, n) < Position(before, m) =>
                       Position(fields, n) < Position(fields, m)
             /\ StoredFields = fields
             /\ RowsShow(fields)

\* The first field of a map of three has been renamed; it carries a value
\* and is now the last field.
C15_Witness ==
    /\ CardFinished("renamed")
    /\ cardLast.task.row = 0
    /\ Len(fields) = 3
    /\ fields[3].name = cardLast.task.name
    /\ fields[3].value # <<>>

\* C16: in a live editor, after any sequence of add-field clicks and name
\* blurs, accepted or rejected, the names shown in the rows are pairwise
\* distinct and non-empty, the names of the field map and of the persisted
\* map are pairwise distinct and non-empty, and no step has left fewer
\* fields or rows than it found.
C16_NamesStayUnique ==
    (~cleaned /\ focused = None) =>
        /\ \A i, j \in 1..Len(rows) : rows[i].name = rows[j].name => i = j
        /\ \A i \in 1..Len(rows) : rows[i].name # <<>>
        /\ DistinctNames(fields) /\ \A i \in 1..Len(fields) : fields[i].name # <<>>
        /\ DistinctNames(StoredFields) /\ \A i \in 1..Len(StoredFields) : StoredFields[i].name # <<>>
        /\ Len(fields) >= Len(cardLast.fields)
        /\ Len(StoredFields) >= Len(cardLast.stored)
        /\ Len(rows) >= Len(cardLast.rows)

\* A field has been added to an empty map and then renamed.
C16_Witness ==
    /\ CardFinished("renamed")
    /\ ~cleaned
    /\ cardOps = 2
    /\ Len(rows) = 1
    /\ rows[1].name = <<"B", "a", "c", "k">>

\* The row of field i points its two settings at that field of the editor's format.
RowBound(row, name) ==
    /\ row.valueSetting = [root |-> "anki.cardFormats", index |-> cardControllerIndex,
                           key |-> "fields", fieldName |-> name, leaf |-> "value"]
    /\ row.overwriteSetting = [root |-> "anki.cardFormats", index |-> cardControllerIndex,
                               key |-> "fields", fieldName |-> name, leaf |-> "overwriteMode"]

\* C17: after a prepare() that rendered, and after every completed add and
\* every completed rename, the editor shows exactly one row per field of its
\* field map, in map order, row i carrying index i and bound to field i, the
\* entries name the same fields, and that map is the one the settings store
\* holds for the editor's format.
C17_RowsMirrorFieldMap ==
    ((CardFinished("prepared") /\ cardLast.ok /\ ~cleaned)
        \/ CardFinished("added") \/ CardFinished("renamed")) =>
        /\ RowsShow(fields)
        /\ \A i \in 1..Len(fields) : RowBound(rows[i], fields[i].name)
        /\ Len(fieldEntries) = Len(fields)
        /\ \A i \in 1..Len(fields) : fieldEntries[i].fieldName = fields[i].name
        /\ fields = StoredFields

\* A field has been added to the two fields the format came with.
C17_Witness ==
    /\ CardFinished("added")
    /\ Len(rows) = 3
    /\ rows[3].index = <<"2">>
    /\ rows[1].name = <<"F", "r", "o", "n", "t">>

\* The template holds the token {m} of a recognized marker m.
HoldsMarkerToken(value) ==
    \E m \in {TermFieldMarkers[k] : k \in 1..Len(TermFieldMarkers)}
             \cup {KanjiFieldMarkers[k] : k \in 1..Len(KanjiFieldMarkers)} :
        \E a \in 0..(Len(value) - Len(m) - 2) :
            SubSeq(value, a + 1, a + Len(m) + 2) = <<"{">> \o m \o <<"}">>

\* C18: every row's invalid flag is 'true' iff its recorded permission state
\* is 'false' or it is row 0 and its value holds no token of a recognized
\* marker; so a row with index >= 1 and no permission problem is not
\* flagged, whatever its value. The flag is the only outcome of a validation.
C18_RowFlaggedIffInvalid ==
    \A r \in 1..Len(rows) :
        /\ rows[r].invalid \in {"true", "false"}
        /\ rows[r].invalid = "true" <=>
              \/ rows[r].hasPermissions = Some("false")
              \/ (r - 1 = 0 /\ ~HoldsMarkerToken(rows[r].value))
        /\ (r - 1 >= 1 /\ rows[r].hasPermissions # Some("false")) => rows[r].invalid = "false"

\* Row 0 holds plain text and is flagged, row 1 is empty and not flagged, and
\* row 2 has just been refused the permission its value needs and is flagged.
C18_Witness ==
    /\ cardLast.op = "permissionReply"
    /\ Len(rows) = 3
    /\ rows[1].value = <<"x">> /\ rows[1].hasPermissions = None /\ rows[1].invalid = "true"
    /\ rows[2].value = <<>> /\ rows[2].invalid = "false"
    /\ rows[3].hasPermissions = Some("false") /\ rows[3].invalid = "true"

\* ------------------------------------------------- default marker lookup

\* A name with its hyphens, underscores and spaces left out.
WithoutSeparators(s) == SelectSeq(s, LAMBDA c : c \notin SeparatorClass)

\* A name in lower case.
LowerCased(s) ==
    [k \in 1..Len(s) |-> IF \E j \in 1..26 : UpperCaseLetters[j] = s[k]
                         THEN LowerCaseLetters[CHOOSE j \in 1..26 : UpperCaseLetters[j] = s[k]]
                         ELSE s[k]]

\* Where the separators of a name stand: after how many of its other characters.
SeparatorSlots(s) ==
    {Cardinality({j \in 1..k : s[j] \notin SeparatorClass}) : k \in {i \in 1..Len(s) : s[i] \in SeparatorClass}}

\* Two names are equal but for case and for hyphens, underscores and spaces.
InsensitiveMatch(fieldName, candidate) ==
    LowerCased(WithoutSeparators(fieldName)) = LowerCased(WithoutSeparators(candidate))

\* The same, with the field name's separators standing only where the
\* candidate has a hyphen.
HyphenPositionMatch(fieldName, candidate) ==
    /\ InsensitiveMatch(fieldName, candidate)
    /\ SeparatorSlots(fieldName) \subseteq SeparatorSlots(candidate)

\* The aliases the alias map holds for a marker: those of the last entry keyed by it.
AliasesOf(marker) ==
    LET found == {k \in 1..Len(MarkerAliasEntries) : MarkerAliasEntries[k].key = marker}
    IN  IF found = {} THEN {}
        ELSE LET held == MarkerAliasEntries[CHOOSE k \in found : \A j \in found : j <= k].aliases
             IN  {held[k] : k \in 1..Len(held)}

\* The token of the first marker of the type's list that the field name
\* matches, by its canonical name or an alias; empty when there is none.
LookupBy(Match(_, _), fieldName, type) ==
    LET markers == GetStandardFieldMarkers(type)
        hits == {k \in 1..Len(markers) :
                    \E candidate \in {markers[k]} \cup AliasesOf(markers[k]) : Match(fieldName, candidate)}
    IN  IF hits = {} THEN <<>>
        ELSE MarkerToken(markers[CHOOSE k \in hits : \A j \in hits : k <= j])

\* The lookup has returned for a name no old field supplies.
LookedUp ==
    /\ IsSome(defaultValue)
    /\ ~(IsSome(queryOldFields) /\ HasOwnProperty(Get(queryOldFields), queryFieldName))

\* C19 as stated: whatever the row, the default of a field name is the token of
\* the first marker, in marker-list order, whose canonical name or alias
\* equals the name but for case, hyphens, underscores and spaces, and is empty
\* when no marker matches; "Term-Reading" gives {reading} and "unknown-field"
\* gives the empty string.
C19_DefaultLookupByName ==
    IsSome(defaultValue) =>
        /\ Get(defaultValue) = LookupBy(InsensitiveMatch, queryFieldName, queryType)
        /\ queryFieldName = <<"T", "e", "r", "m", "-", "R", "e", "a", "d", "i", "n", "g">> /\ queryType = "term" => Get(defaultValue) = <<"{", "r", "e", "a", "d", "i", "n", "g", "}">>
        /\ queryFieldName = <<"u", "n", "k", "n", "o", "w", "n", "-", "f", "i", "e", "l", "d">> => Get(defaultValue) = <<>>

\* C19 amended: for a row of index 1 or more and a name no old field
\* supplies, the default is the token of the first marker, in marker-list
\* order, whose canonical name or held alias equals the name but for case,
\* with any run of hyphens, underscores and spaces accepted where the
\* canonical name or alias has a hyphen and nowhere else; it is empty when no
\* marker matches; "Term-Reading" gives {reading} on a term format and
\* "unknown-field" gives the empty string.
C19_DefaultLookupFromSecondRow ==
    LookedUp /\ queryIndex >= 1 =>
        /\ Get(defaultValue) = LookupBy(HyphenPositionMatch, queryFieldName, queryType)
        /\ queryFieldName = <<"T", "e", "r", "m", "-", "R", "e", "a", "d", "i", "n", "g">> /\ queryType = "term" => Get(defaultValue) = <<"{", "r", "e", "a", "d", "i", "n", "g", "}">>
        /\ queryFieldName = <<"u", "n", "k", "n", "o", "w", "n", "-", "f", "i", "e", "l", "d">> => Get(defaultValue) = <<>>

\* "Term-Reading" was looked up for a later row of a term format and gave {reading}.
C19_Witness ==
    /\ LookedUp
    /\ queryIndex >= 1
    /\ queryType = "term"
    /\ queryFieldName = <<"T", "e", "r", "m", "-", "R", "e", "a", "d", "i", "n", "g">>
    /\ defaultValue = Some(<<"{", "r", "e", "a", "d", "i", "n", "g", "}">>)

\* ------------------------------------------------------------- name fetch

\* The call that started fetch f.
Starter(f) == CHOOSE c \in 1..Len(callers) : callers[c].fetch = f /\ callers[c].requests > 0

\* A getAnkiData call made while fetch f was pending issued no remote request
\* and was handed the result of f, which an earlier call started.
SharesFetch(c, f) ==
    /\ callers[c].requests = 0
    /\ callers[c].fetch = f
    /\ \E s \in 1..(c - 1) : callers[s].fetch = f /\ callers[s].requests > 0
    /\ callers[c].data = callers[Starter(f)].data

\* C20 as stated: at most one name fetch is in flight at a time, and a
\* getAnkiData call made while a fetch is pending starts no remote request and
\* receives the same promise, hence the same result, as the call that started
\* the fetch.
C20_SamePromiseWhilePending ==
    /\ Cardinality(InFlight) <= 1
    /\ \A c \in 1..Len(callers) :
          \A f \in callers[c].inFlight :
              /\ SharesFetch(c, f)
              /\ callers[c].returned = callers[Starter(f)].returned

\* C20 amended: at most one name fetch is in flight at a time, and a
\* getAnkiData call made while a fetch is pending starts no remote request and
\* receives a promise of its own that is resolved with the pending fetch's
\* promise, hence the same result as the call that started the fetch.
C20_OneFetchInFlight ==
    /\ Cardinality(InFlight) <= 1
    /\ \A c \in 1..Len(callers) :
          /\ \A d \in 1..Len(callers) : callers[c].returned = callers[d].returned => c = d
          /\ \A f \in callers[c].inFlight :
                /\ SharesFetch(c, f)
                /\ callers[c].returned # fetches[f].promise

\* A call made while a fetch was pending has received that fetch's result.
C20_Witness ==
    \E c \in 1..Len(callers) :
        /\ callers[c].inFlight # {}
        /\ IsSome(callers[c].data)
        /\ IsSome(callers[Starter(callers[c].fetch)].data)

\* ------------------------------------------------------------ remote errors

\* C21: a failure of a remote call made through the controller is never
\* propagated: no controller method rejects, neither getAnkiData nor a
\* pass-through note-API method.
C21_RemoteFailureNeverPropagates ==
    /\ \A c \in 1..Len(callers) : IsSome(callers[c].data) \/ callers[c].fetch \in InFlight
    /\ \A k \in 1..Len(noteCalls) : noteCalls[k].state # "rejected"

\* ------------------------------------------------------- removed editors

\* C22: an editor that was removed never again renders the field rows or
\* repopulates its row entries, also when an addField or a rename of it was
\* awaiting the settings store at the time of cleanup().
C22_RemovedEditorLeavesRowsAlone ==
    cleaned =>
        /\ fieldEntries = <<>>
        /\ cardLast.op \in {"added", "renamed"} => rows = cardLast.rows

\* ---------------------------------------------------------- invalid indices

\* C23: deleteCardFormat and openDeleteCardFormatModal, handed an index
\* outside 0..length-1 of the current list, fail with an error and change no
\* state.
C23_InvalidIndexRaises ==
    IsSome(ankiOptions) /\ last.arg \notin 0..(Len(Get(ankiOptions)) - 1) =>
        /\ last.op = "deleteCall" =>
              /\ DeleteCardFormatOutcome(last.arg) = "throws"
              /\ Quiet
        /\ last.op = "openModal" =>
              /\ OpenDeleteCardFormatModalOutcome(last.arg) = "throws"
              /\ removeModal = last.modal

\* Whether a text ends in '.', '!' or '?'.
EndsSentence(text) == Len(text) > 0 /\ text[Len(text)] \in {".", "!", "?"}

\* An error is on display: _showAnkiError wrote the status area last.
ErrorOnDisplay == statusDanger /\ IsSome(ankiError) /\ ~statusText.default

\* C24 as stated: a displayed remote error always ends in '.', '!' or '?'; a
\* message that already ends so is shown unchanged, any other message is shown
\* with exactly one '.' appended; the error is recorded as the current error.
C24_ErrorShownWithPeriod ==
    statusDanger =>
        /\ ErrorOnDisplay
        /\ EndsSentence(statusText.text)
        /\ LET message == Get(ankiError).message
           IN  statusText.text = IF EndsSentence(message) THEN message ELSE message \o <<".">>

\* C24 amended: a displayed remote error always ends in '.', '!' or '?'; a
\* message that already ends so is shown unchanged, any other non-empty message
\* is shown with exactly one '.' appended, and an error with an empty message
\* is shown as "Error."; the error is recorded as the current error.
C24_ErrorShownNormalized ==
    statusDanger =>
        /\ ErrorOnDisplay
        /\ EndsSentence(statusText.text)
        /\ LET message == Get(ankiError).message
           IN  statusText.text = IF EndsSentence(message) THEN message
                                 ELSE IF message # <<>> THEN message \o <<".">>
                                 ELSE <<"E", "r", "r", "o", "r", ".">>

\* A failed request's message without final punctuation is on display.
C24_Witness ==
    /\ ErrorOnDisplay
    /\ Get(ankiError).message = <<"F", "a", "i", "l">>
    /\ statusText.text = <<"F", "a", "i", "l", ".">>

\* ------------------------------------------------------------ listed aliases

\* C25: for a row of index 1 or more, a field name that equals an alias listed
\* in the alias table, but for case and for separators at the alias's hyphen
\* positions, gets the token of the canonical marker the alias is listed for,
\* when the format's type has that marker; this holds of every listed alias.
C25_EveryListedAliasResolves ==
    LookedUp /\ queryIndex >= 1 =>
        \A k \in 1..Len(MarkerAliasEntries) :
            \A a \in 1..Len(MarkerAliasEntries[k].aliases) :
                LET markers == GetStandardFieldMarkers(queryType)
                    listed == \E j \in 1..Len(markers) : markers[j] = MarkerAliasEntries[k].key
                IN  listed /\ HyphenPositionMatch(queryFieldName, MarkerAliasEntries[k].aliases[a])
                        => Get(defaultValue) = MarkerToken(MarkerAliasEntries[k].key)

\* ------------------------------------------------------- pending-fetch cache

\* Both name requests of fetch f have settled.
BothAnswered(f) == IsSome(fetches[f].deckNames) /\ IsSome(fetches[f].modelNames)

\* C26: the cache holds a fetch exactly while one of its two name requests is
\* outstanding, so it is cleared once both have settled, whether they failed
\* or not; a getAnkiData call made when no fetch is pending starts a fresh
\* fetch; and a fetch is started only by a getAnkiData call.
C26_CacheClearedOnSettle ==
    /\ [](\A f \in 1..Len(fetches) :
              /\ BothAnswered(f) => fetches[f].settled /\ getAnkiDataPromise # Some(f)
              /\ ~BothAnswered(f) => getAnkiDataPromise = Some(f))
    /\ [][/\ Len(fetches') > Len(fetches) =>
                /\ Len(fetches') = Len(fetches) + 1
                /\ Len(callers') = Len(callers) + 1
          /\ (Len(callers') > Len(callers) /\ \A f \in 1..Len(fetches) : BothAnswered(f)) =>
                /\ Len(fetches') = Len(fetches) + 1
                /\ callers'[Len(callers')].fetch = Len(fetches')
                /\ callers'[Len(callers')].data = None]_vars

\* After a fetch whose deck request failed, a later call has started a fresh fetch.
C26_Witness ==
    /\ Len(fetches) >= 2
    /\ fetches[1].settled
    /\ IsSome(Get(fetches[1].deckNames).error)
    /\ getAnkiDataPromise = Some(2)

\* ---------------------------------------------------------- rename position

\* C27: a successful rename leaves the renamed field last in display order;
\* when it was the field of row 0 of a map of two or more fields, the field
\* that was at row 1 is the new row 0.
C27_RenameMovesFieldLast ==
    CardFinished("renamed") =>
        LET before == cardLast.task.startFields
            new == cardLast.task.name
        IN  /\ fields[Len(fields)].name = new
            /\ rows[Len(rows)].name = new
            /\ cardLast.task.row = 0 /\ Len(before) >= 2 =>
                  /\ fields[1].name = before[2].name
                  /\ rows[1].name = before[2].name

\* -------------------------------------------------------- permission checks

\* C28: the answer of a permission check started for an earlier value never
\* overwrites the outcome recorded for a later value: when the row's value
\* was since replaced by one that needs no permission, and the row records
\* that, the answer leaves the row's permission state and invalid flag alone.
C28_StaleCheckNeverOverwrites ==
    (cardLast.op = "permissionReply" /\ ~cardLast.task.detached) =>
        LET r == cardLast.row + 1
        IN  (/\ cardLast.rows[r].requiredPermission = None
             /\ Len(GetRequiredPermissions(cardLast.rows[r].value)) = 0) =>
                /\ rows[r].hasPermissions = None
                /\ rows[r].invalid = cardLast.rows[r].invalid

\* --------------------------------------------------------------- field menus

\* The markers of a menu: the standard markers of the types it serves.
MenuMarkerSet(types) == {StandardMarkers(types)[k] : k \in 1..Len(StandardMarkers(types))}

\* How often a marker occurs among the children of a container.
Occurrences(children, marker) == Cardinality({k \in 1..Len(children) : children[k] = marker})

\* C29: once every started field-menu setup has finished, each of the three
\* menus holds each of its markers exactly once, in sorted order, also when a
\* setup started while an earlier one was awaiting the dictionary info.
C29_MenusHoldEachMarkerOnce ==
    (/\ menuCalls >= 1
     /\ menuTasks = <<>>
     /\ \A name \in FieldMenuNames : menuTemplates[name] = "present") =>
        \A t \in 1..Len(FieldMenuTargets) :
            LET children == menus[FieldMenuTargets[t].templateName]
            IN  /\ \A marker \in MenuMarkerSet(FieldMenuTargets[t].types) : Occurrences(children, marker) = 1
                /\ \A k \in 1..(Len(children) - 1) : StringLess(children[k], children[k + 1])

\* ------------------------------------------------------- selected field menu

\* C30: whenever a tab change or a reload sets the selection state, the
\* selected field menu is the one of the type of the format at the selected
\* index: the term menu for a term format, the kanji menu for a kanji format.
C30_SelectedMenuMatchesType ==
    (/\ last.op \in {"tabChange", "reload"}
     /\ last.ok
     /\ IsSome(ankiOptions)
     /\ cardFormatIndex < Len(Get(ankiOptions))) =>
        panel.ankiCardMenu = Some(FieldMenuName(At(Get(ankiOptions), cardFormatIndex).type))

\* ------------------------------------------------ removal during prepare()

\* C31: when cleanup() ran while prepare() was awaiting the options, the
\* resumed prepare() renders no rows and registers no listeners, and the
\* editor's field map and row entries stay empty.
C31_CleanedPrepareRendersNothing ==
    (CardFinished("prepared") /\ cleaned) =>
        /\ rows = <<>>
        /\ cardListeners = {}
        /\ fields = <<>>
        /\ fieldEntries = <<>>
        /\ thisCardFormat = None
        /\ cardTasks = <<>>

\* cleanup() came between the getOptions() of prepare() and its answer's
\* continuation, for a format that has fields to render.
C31_Witness ==
    /\ CardFinished("prepared") /\ cleaned
    /\ cardLast.task.kind = "prepare"
    /\ cardControllerIndex < Len(cardLast.task.opts)
    /\ Len(At(cardLast.task.opts, cardControllerIndex).fields) > 0

\* ------------------------------------------------------- field menu choices

\* C32: choosing marker m from a row's field menu sets that row's value to
\* exactly '{m}' whatever it was and re-validates that row (its required
\* permission and its invalid flag are those of the new value); every other
\* row is as it was; closing the menu without an item changes no row.
C32_MenuChoiceSetsValue ==
    /\ CardFinished("setFieldMarker") =>
          LET r == cardLast.row + 1
              m == cardLast.input
              needsClipboard == m = <<"c", "l", "i", "p", "b", "o", "a", "r", "d", "-", "t", "e", "x", "t">>
          IN  /\ Len(rows) = Len(cardLast.rows)
              /\ rows[r].value = <<"{">> \o m \o <<"}">>
              /\ \A q \in 1..Len(rows) : q # r => rows[q] = cardLast.rows[q]
              /\ rows[r].name = cardLast.rows[r].name
              /\ IsSome(rows[r].requiredPermission) <=> needsClipboard
              /\ ~needsClipboard => rows[r].hasPermissions = None
              /\ rows[r].invalid = "true" <=>
                    \/ rows[r].hasPermissions = Some("false")
                    \/ (r - 1 = 0 /\ ~HoldsMarkerToken(rows[r].value))
              /\ fields = cardLast.fields
    /\ CardFinished("menuDismiss") =>
          /\ rows = cardLast.rows
          /\ fields = cardLast.fields
          /\ cardTasks = <<>>

\* A marker was chosen for the second of three rows, whose value was empty
\* before.
C32_Witness ==
    /\ CardFinished("setFieldMarker")
    /\ cardLast.row = 1
    /\ Len(rows) = 3
    /\ cardLast.rows[2].value = <<>>
    /\ rows[2].value = <<"{", "r", "e", "a", "d", "i", "n", "g", "}">>

\* ------------------------------------------------------- outcome of a fetch

\* The text the status area shows for an error.
ShownFor(error) ==
    LET message == error.message
    IN  IF EndsSentence(message) THEN message
        ELSE IF message # <<>> THEN message \o <<".">>
        ELSE <<"E", "r", "r", "o", "r", ".">>

\* The list a name request contributes to the data of its fetch.
ListOf(answer) == IF IsSome(answer.error) THEN <<>> ELSE answer.names

MenuOpened == fieldMenu.opened /\ IsSome(defaultValue)

\* C34: for the row of index 0 the default template is '{character}' on a
\* kanji format and '{expression}' on any other, whatever the field is named;
\* the name decides the default only for rows of index 1 and more.
C34_FirstRowDefaultIgnoresName ==
    MenuOpened =>
        /\ queryIndex = 0 =>
              Get(defaultValue) = IF queryType = "kanji"
                                  THEN <<"{", "c", "h", "a", "r", "a", "c", "t", "e", "r", "}">>
                                  ELSE <<"{", "e", "x", "p", "r", "e", "s", "s", "i", "o", "n", "}">>
        /\ queryIndex >= 1 =>
              Get(defaultValue) = LookupBy(HyphenPositionMatch, queryFieldName, queryType)

\* The menu of row 0 was opened for a field named "reading" of a term format:
\* the default is {expression}, where the name alone would give {reading}.
C34_Witness ==
    /\ MenuOpened
    /\ queryIndex = 0
    /\ queryType = "term"
    /\ queryFieldName = <<"r", "e", "a", "d", "i", "n", "g">>
    /\ LookupBy(HyphenPositionMatch, queryFieldName, queryType) = <<"{", "r", "e", "a", "d", "i", "n", "g", "}">>
    /\ defaultValue = Some(<<"{", "e", "x", "p", "r", "e", "s", "s", "i", "o", "n", "}">>)
    /\ fieldMenu.bold = <<"e", "x", "p", "r", "e", "s", "s", "i", "o", "n">>

====
